---- MODULE Spec2Model ----
(***************************************************************************)
(* A model of nanodoc: the line-oriented document assembler                *)
(* (src/nanodoc/nanodoc.py, src/nanodoc/core.py), the content item model   *)
(* (src/nanodoc/data.py) and the argument resolver.                        *)
(*                                                                         *)
(* Text.  A Python str is modelled as a sequence of atoms.  An atom is a   *)
(* TLA+ string that holds no line break; the atom NL is the one-character  *)
(* string "\n".  File contents are sequences over a small alphabet; the    *)
(* strings the program formats (headers, number prefixes, TOC entries)     *)
(* are built as the code builds them and enter the text as atoms.          *)
(***************************************************************************)
EXTENDS Integers, Sequences, FiniteSets, TLC

VARIABLES
    fs,                \* the file system: path -> [kind, readable, data]
    verified_sources,  \* process_files: the list handed to the assembler
    line_number_mode,  \* process_files argument: "None" | "file" | "all"
    generate_toc,      \* process_files argument
    show_header,       \* process_files argument
    sequence,          \* process_files argument: "None" | "numerical" | "letter" | "roman"
    style,             \* process_files argument: "None" | "filename" | "path" | "nice"
    pc,                \* position inside main and process_files
    toc,               \* process_files local: the TOC text
    idx,               \* process_files local: 1-based index of the next source
    output_buffer,     \* process_files local
    line_counter,      \* process_files local
    result,            \* what process_files returned
    exc,               \* the exception that left process_files, or "None"
    blocks,            \* history: per processed source, where its block starts in
                       \* output_buffer, and what process_file returned for it
    item,              \* a ContentItem: [original_arg, file_path, ranges, content]
    validated,         \* outcome of item.validate(): "None" (not called), "True",
                       \* or the name of the exception raised
    returned,          \* history: the values item.get_content() returned, in call order
    calls,             \* history: the number of get_content calls made
    reads,             \* history: how often load_content read the file
    writes,            \* history: how often item.content was assigned
    loaded,            \* history: load_content's list "result" and the lines it read
    stale_hits,        \* history: get_content calls answered while the file no longer
                       \* held the lines that were loaded
    args,              \* main: args.sources, the argument strings
    options,           \* main: the options parsed from the command line
    sniffed,           \* what is_bundle_file returned: "None" (not called), "True", "False"
    exit_status,       \* main: "None" while running, then 0 or 1 as a string
    selector,          \* the line_ref argument of parse_line_reference
    parsed,            \* what parse_line_reference did: [ok, val] with the list of
                       \* ranges, or [ok, exc] with the exception raised ("None"
                       \* while it has not been called)
    command_file,      \* the JSON list held by the command file, as a sequence
    modified,          \* os.path.getmtime(command_file) > handler.last_modified
    handler,           \* the CommandHandler thread: [pc, commands]
    client,            \* per client process: [pc, commands, count]
    executed,          \* history: the commands _process_command was called with
    sent,              \* history: the commands whose send_command has returned
    content_items,     \* BundleMaker.content_items: the list of ContentItem objects
    got,               \* history: per get_content call on a listed item, the item's
                       \* path and ranges at the call and the value returned
    selection,         \* _interactive_line_selection: its locals and what it returned
    screen,            \* the FileDetail instance that handles the key presses
    app                \* App: [current_screen, created, keys] with the number of
                       \* screen instances created and of key presses handled

asmVars == <<verified_sources, line_number_mode, generate_toc, show_header, sequence,
             style, pc, toc, idx, output_buffer, line_counter, result, exc, blocks>>

itemVars == <<item, validated, returned, calls, reads, writes, loaded, stale_hits>>

resVars == <<args, options, sniffed, exit_status>>

parseVars == <<selector, parsed>>

cmdVars == <<command_file, modified, handler, client, executed, sent>>

uiVars == <<content_items, got, selection, screen, app>>

nonAsmVars == <<itemVars, resVars, parseVars, cmdVars, uiVars>>

nonItemVars == <<asmVars, resVars, parseVars, cmdVars, uiVars>>

vars == <<fs, asmVars, itemVars, resVars, parseVars, cmdVars, uiVars>>

nonCmdVars == <<fs, asmVars, itemVars, resVars, parseVars, uiVars>>

nonUiVars == <<fs, asmVars, itemVars, resVars, parseVars, cmdVars>>

----------------------------------------------------------------------------
(* Bounds of the model *)

MaxContentLen == 2     \* atoms in a file of the assembler runs
MaxSources == 2        \* entries in verified_sources

----------------------------------------------------------------------------
(* Text helpers: the Python str and list operations the code relies on *)

NL == "\n"

None == "None"

Max(a, b) == IF a >= b THEN a ELSE b

RECURSIVE Join(_)
\* "".join(list_of_str)
Join(ss) == IF ss = <<>> THEN <<>> ELSE Head(ss) \o Join(Tail(ss))

RECURSIVE Repeat(_, _)
\* str * n
Repeat(c, n) == IF n <= 0 THEN "" ELSE c \o Repeat(c, n - 1)

\* index of the first NL of s, 0 when there is none
FirstNL(s) ==
    IF \E i \in 1..Len(s) : s[i] = NL
    THEN CHOOSE i \in 1..Len(s) : s[i] = NL /\ \A j \in 1..(i - 1) : s[j] # NL
    ELSE 0

RECURSIVE readlines(_)
\* file.readlines() and str.splitlines(True): the lines, terminators kept.
\* (The alphabets of the model hold no line break other than NL.)
readlines(s) ==
    IF s = <<>> THEN <<>>
    ELSE LET k == FirstNL(s)
         IN  IF k = 0 THEN <<s>>
             ELSE <<SubSeq(s, 1, k)>> \o readlines(SubSeq(s, k + 1, Len(s)))

\* a line without its terminator
chomp(l) == IF l[Len(l)] = NL THEN SubSeq(l, 1, Len(l) - 1) ELSE l

\* the lines ls without their terminators
chomp_all(ls) == [i \in 1..Len(ls) |-> chomp(ls[i])]

\* str.splitlines(): the lines without their terminators
splitlines(s) == chomp_all(readlines(s))

RECURSIVE rstrip_nl(_)
\* str.rstrip("\n"): every trailing NL is removed
rstrip_nl(s) ==
    IF s # <<>> /\ s[Len(s)] = NL THEN rstrip_nl(SubSeq(s, 1, Len(s) - 1)) ELSE s

\* the 1-indexed line of text s on which position pos lies
LineOf(s, pos) == 1 + Cardinality({j \in 1..(pos - 1) : s[j] = NL})

\* all sequences over S of length 0..n
SeqsUpTo(S, n) == UNION {[1..k -> S] : k \in 0..n}

----------------------------------------------------------------------------
(* Paths and the file system *)

\* A path string is held in its three parts, so that os.path.basename and
\* os.path.splitext can be computed.
ContentPaths == { [dir |-> "d/", stem |-> "p", ext |-> ".txt"],
                  [dir |-> "", stem |-> "a_b", ext |-> ".md"] }

\* the path of a file that may hold a bundle manifest
BundlePath == [dir |-> "", stem |-> "m", ext |-> ".txt"]

\* further files with the base name "p": they differ in the directory or the extension
SortPaths == { [dir |-> "", stem |-> "p", ext |-> ".txt"],
               [dir |-> "", stem |-> "p", ext |-> ".md"],
               [dir |-> "", stem |-> "p", ext |-> ".py"],
               [dir |-> "", stem |-> "p", ext |-> ".rst"] }

Paths == ContentPaths \cup {BundlePath} \cup SortPaths

PathStr(p) == p.dir \o p.stem \o p.ext

\* os.path.basename(path)
basename(p) == p.stem \o p.ext

Absent == [kind |-> "absent", readable |-> FALSE, data |-> <<>>]

RegularFile(d) == [kind |-> "file", readable |-> TRUE, data |-> d]

\* the file system in which the two content paths and the bundle path are in the
\* given states and no other file exists
FileSystem(cp, ca, cm) ==
    [q \in Paths |-> IF q = [dir |-> "d/", stem |-> "p", ext |-> ".txt"] THEN cp
                     ELSE IF q = [dir |-> "", stem |-> "a_b", ext |-> ".md"] THEN ca
                     ELSE IF q = BundlePath THEN cm
                     ELSE Absent]

\* open(path, "r") followed by f.readlines()
open_readlines(fsys, p) ==
    CASE fsys[p].kind = "absent" -> [ok |-> FALSE, exc |-> "FileNotFoundError"]
      [] fsys[p].kind = "dir"    -> [ok |-> FALSE, exc |-> "IsADirectoryError"]
      [] ~fsys[p].readable       -> [ok |-> FALSE, exc |-> "PermissionError"]
      [] OTHER                   -> [ok |-> TRUE, val |-> readlines(fsys[p].data)]

\* get_file_content(file_path): the whole file
get_file_content(fsys, p) ==
    LET r == open_readlines(fsys, p)
    IN  IF r.ok THEN [ok |-> TRUE, val |-> Join(r.val)] ELSE r

----------------------------------------------------------------------------
(* Formatting: src/nanodoc/nanodoc.py *)

\* re.sub(r"[-_]", " ", stem).title(), for the stems of Paths
nice_title(stem) ==
    CASE stem = "p"   -> "P"
      [] stem = "a_b" -> "A B"
      [] stem = "m"   -> "M"
      [] OTHER        -> stem

\* apply_style_to_filename(os.path.basename(p), style, p)
apply_style_to_filename(p, sty) ==
    CASE sty = None \/ sty = "filename" -> basename(p)
      [] sty = "path" -> PathStr(p)
      [] sty = "nice" -> nice_title(p.stem) \o " (" \o basename(p) \o ")"
      [] OTHER -> basename(p)

roman_val == <<1000, 900, 500, 400, 100, 90, 50, 40, 10, 9, 5, 4, 1>>

\* syms of to_roman, after the final .lower()
roman_syms == <<"m", "cm", "d", "cd", "c", "xc", "l", "xl", "x", "ix", "v", "iv", "i">>

RECURSIVE to_roman_loop(_, _)
to_roman_loop(num, i) ==
    IF num <= 0 THEN ""
    ELSE Repeat(roman_syms[i], num \div roman_val[i])
            \o to_roman_loop(num % roman_val[i], i + 1)

\* to_roman(num), num a positive integer
to_roman(num) == to_roman_loop(num, 1)

Letters == <<"a", "b", "c", "d", "e", "f", "g", "h", "i", "j", "k", "l", "m",
             "n", "o", "p", "q", "r", "s", "t", "u", "v", "w", "x", "y", "z">>

\* format_pos(style, position)
format_pos(seqstyle, position) ==
    LET n == position + 1
    IN  CASE seqstyle = None        -> ""
          [] seqstyle = "numerical" -> ToString(n) \o ". "
          [] seqstyle = "letter"    -> Letters[((n - 1) % 26) + 1] \o ". "
          [] seqstyle = "roman"     -> to_roman(n) \o ". "
          [] OTHER                  -> ""

\* apply_sequence_to_text(text, sequence, seq_index)
apply_sequence_to_text(text, seqstyle, seq_index) ==
    LET prefix == format_pos(seqstyle, seq_index)
    IN  IF prefix # "" THEN prefix \o text ELSE text

\* create_header(basename, sequence=, seq_index=, style=, original_path=p)
create_header(p, seqstyle, seq_index, sty) ==
    apply_sequence_to_text(apply_style_to_filename(p, sty), seqstyle, seq_index)

\* create_header("TOC", sequence=None, style=style): no original_path, so the
\* text is kept as it is
create_header_text(text) == apply_sequence_to_text(text, None, 0)

\* f"{n:4d}: "
line_number_prefix(n) ==
    Repeat(" ", 4 - Len(ToString(n))) \o ToString(n) \o ": "

----------------------------------------------------------------------------
(* The two-pass assembler: src/nanodoc/nanodoc.py *)

RECURSIVE toc_line_loop(_, _, _, _, _)
\* generate_table_of_contents, the loop that fills toc_line_numbers: a dict
\* keyed by the source path, so a path listed twice keeps its last number.
toc_line_loop(fsys, srcs, k, current_line, numbers) ==
    IF k > Len(srcs) THEN [ok |-> TRUE, val |-> numbers]
    ELSE LET r == get_file_content(fsys, srcs[k])
         IN  IF ~r.ok THEN r
             ELSE toc_line_loop(fsys, srcs, k + 1,
                                current_line + Len(splitlines(r.val)) + 3,
                                [numbers EXCEPT ![srcs[k]] = current_line + 3])

\* toc_size with the TOC header counted as one line
toc_size_short_header(srcs) == 1 + Len(srcs) + 1

\* toc_size of generate_table_of_contents
toc_size(srcs) ==
    LET toc_header_lines == 2
        toc_entries_lines == Len(srcs)
        toc_footer_lines == 1
    IN  toc_header_lines + toc_entries_lines + toc_footer_lines

RECURSIVE MaxOver(_, _)
MaxOver(f, S) ==
    IF S = {} THEN 0
    ELSE LET x == CHOOSE y \in S : TRUE IN Max(f[x], MaxOver(f, S \ {x}))

\* generate_table_of_contents(verified_sources, style), verified_sources not empty
generate_table_of_contents(fsys, srcs, sty) ==
    LET r == toc_line_loop(fsys, srcs, 1, toc_size(srcs), [p \in Paths |-> 0])
    IN  IF ~r.ok THEN r
        ELSE
          LET listed == {srcs[k] : k \in 1..Len(srcs)}
              formatted == [p \in listed |-> apply_style_to_filename(p, sty)]
              max_filename_length ==
                  MaxOver([p \in listed |-> Len(formatted[p])], listed)
              entry(k) ==
                  << formatted[srcs[k]], " ",
                     Repeat(".", max_filename_length - Len(formatted[srcs[k]]) + 5),
                     " ", ToString(r.val[srcs[k]]), NL >>
          IN  [ok |-> TRUE,
               val |-> <<NL, create_header_text("TOC"), NL, NL>>
                        \o Join([k \in 1..Len(srcs) |-> entry(k)])
                        \o <<NL>>,
               toc_line_numbers |-> r.val]

\* process_file: the number printed before line i (0-based) of the file
line_number_of(mode, counter, i) ==
    CASE mode = "all"  -> <<line_number_prefix(counter + i + 1)>>
      [] mode = "file" -> <<line_number_prefix(i + 1)>>
      [] OTHER         -> <<>>

\* process_file(file_path, line_number_mode, line_counter, show_header,
\*              sequence, seq_index, style) -> (output, num_lines)
process_file(fsys, p, mode, counter, hdr, seqstyle, seq_index, sty) ==
    LET r == get_file_content(fsys, p)
    IN  IF ~r.ok /\ r.exc = "FileNotFoundError"
        THEN [ok |-> TRUE,
              output |-> <<"Error: File not found: " \o PathStr(p), NL>>,
              num_lines |-> 0, found |-> FALSE]
        ELSE IF ~r.ok THEN r
        ELSE
          LET lines == readlines(r.val)
              header == IF hdr
                        THEN <<NL, create_header(p, seqstyle, seq_index, sty), NL, NL>>
                        ELSE <<>>
          IN  [ok |-> TRUE,
               output |-> header \o
                   Join([i \in 1..Len(lines) |->
                            line_number_of(mode, counter, i - 1) \o lines[i]]),
               num_lines |-> Len(lines), found |-> TRUE]

----------------------------------------------------------------------------
(* process_files as a state machine.  The program is single-threaded; the   *)
(* steps are its reads of the file system, between which another process    *)
(* may remove a file.                                                       *)

AsmAlphabet == {"a", NL}

LineNumberModes == {None, "file", "all"}

SequenceStyles == {None, "numerical", "letter", "roman"}

NameStyles == {None, "filename", "path", "nice"}

\* The (sequence, style) pairs of the runs: every name style without a
\* sequence, and every sequence style with the default name style "nice".
HeaderConfigs ==
    {<<None, sty>> : sty \in NameStyles} \cup {<<sq, "nice">> : sq \in SequenceStyles}

Listed(srcs) == {srcs[k] : k \in 1..Len(srcs)}

\* No ContentItem is in play.
IdleItem ==
    /\ item = [original_arg |-> "", file_path |-> "", ranges |-> <<>>, content |-> <<>>]
    /\ validated = None
    /\ returned = <<>>
    /\ calls = 0
    /\ reads = 0
    /\ writes = 0
    /\ loaded = [result |-> <<>>, all_lines |-> <<>>]
    /\ stale_hits = 0

\* main is not running and nothing has been sniffed.
IdleResolve ==
    /\ args = <<>>
    /\ options = <<>>
    /\ sniffed = None
    /\ exit_status = None

\* parse_line_reference has not been called.
NotCalled == [ok |-> FALSE, exc |-> None]

IdleParse ==
    /\ selector = <<>>
    /\ parsed = NotCalled

\* No command handler thread and no client is running.
IdleCommands ==
    /\ command_file = <<>>
    /\ modified = FALSE
    /\ handler = [pc |-> "stopped", commands |-> <<>>]
    /\ client = <<>>
    /\ executed = <<>>
    /\ sent = <<>>

\* The bundle maker's interface is not running.
IdleUi ==
    /\ content_items = <<>>
    /\ got = <<>>
    /\ selection = [mode |-> "idle"]
    /\ screen = [name |-> None]
    /\ app = [current_screen |-> None, created |-> 0, keys |-> 0]

\* process_files is not running.
IdleAssemble ==
    /\ verified_sources = <<>>
    /\ line_number_mode = None
    /\ generate_toc = FALSE
    /\ show_header = FALSE
    /\ sequence = None
    /\ style = None
    /\ pc = "idle"
    /\ toc = <<>>
    /\ idx = 1
    /\ output_buffer = <<>>
    /\ line_counter = 0
    /\ result = <<>>
    /\ exc = None
    /\ blocks = <<>>

\* The state on entry to process_files: main() hands it a non-empty list of
\* paths that verify_path found to be existing readable files.
InitAssemble ==
    /\ verified_sources \in SeqsUpTo(ContentPaths, MaxSources) \ {<<>>}
    /\ \E cp, ca \in {Absent} \cup
                      {RegularFile(d) : d \in SeqsUpTo(AsmAlphabet, MaxContentLen)} :
           fs = FileSystem(cp, ca, Absent)
    /\ \A p \in Listed(verified_sources) : fs[p].kind = "file"
    /\ \A p \in Paths \ Listed(verified_sources) : fs[p] = Absent
    /\ line_number_mode \in LineNumberModes
    /\ generate_toc \in BOOLEAN
    /\ show_header \in BOOLEAN
    /\ \E hc \in HeaderConfigs : sequence = hc[1] /\ style = hc[2]
    /\ pc = "start"
    /\ toc = <<>>
    /\ idx = 1
    /\ output_buffer = <<>>
    /\ line_counter = 0
    /\ result = <<>>
    /\ exc = None
    /\ blocks = <<>>
    /\ IdleItem
    /\ IdleResolve
    /\ IdleParse
    /\ IdleCommands
    /\ IdleUi

\* process_files: "if generate_toc: toc, _ = generate_table_of_contents(...)"
GenerateToc ==
    /\ pc = "start"
    /\ generate_toc
    /\ LET r == generate_table_of_contents(fs, verified_sources, style)
       IN  IF r.ok
           THEN /\ toc' = r.val
                /\ pc' = "files"
                /\ exc' = exc
           ELSE /\ toc' = toc
                /\ pc' = "raised"
                /\ exc' = r.exc
    /\ UNCHANGED <<fs, verified_sources, line_number_mode, generate_toc, show_header,
                   sequence, style, idx, output_buffer, line_counter, result, blocks,
                   nonAsmVars>>

\* process_files without --toc: toc stays ""
SkipToc ==
    /\ pc = "start"
    /\ ~generate_toc
    /\ pc' = "files"
    /\ UNCHANGED <<fs, verified_sources, line_number_mode, generate_toc, show_header,
                   sequence, style, toc, idx, output_buffer, line_counter, result, exc,
                   blocks, nonAsmVars>>

\* the counter reset for every file, whatever the mode
counter_for_file_always_reset(mode, counter) == 0

\* process_files: the counter handed to process_file for the next source
counter_for_file(mode, counter) == IF mode = "file" THEN 0 ELSE counter

\* process_files: one iteration of "for i, source_file in enumerate(verified_sources)"
ProcessFile ==
    /\ pc = "files"
    /\ idx <= Len(verified_sources)
    /\ LET c == counter_for_file(line_number_mode, line_counter)
           r == process_file(fs, verified_sources[idx], line_number_mode, c,
                             show_header, sequence, idx - 1, style)
       IN  IF r.ok
           THEN /\ output_buffer' = output_buffer \o r.output
                /\ line_counter' = c + r.num_lines
                /\ blocks' = Append(blocks, [start |-> Len(output_buffer),
                                             num_lines |-> r.num_lines,
                                             found |-> r.found,
                                             output |-> r.output])
                /\ idx' = idx + 1
                /\ UNCHANGED <<pc, exc>>
           ELSE /\ pc' = "raised"
                /\ exc' = r.exc
                /\ UNCHANGED <<output_buffer, line_counter, blocks, idx>>
    /\ UNCHANGED <<fs, verified_sources, line_number_mode, generate_toc, show_header,
                   sequence, style, toc, result, nonAsmVars>>

\* process_files: "if generate_toc: output_buffer = toc + output_buffer; return"
Finish ==
    /\ pc = "files"
    /\ idx > Len(verified_sources)
    /\ result' = IF generate_toc THEN toc \o output_buffer ELSE output_buffer
    /\ pc' = "done"
    /\ UNCHANGED <<fs, verified_sources, line_number_mode, generate_toc, show_header,
                   sequence, style, toc, idx, output_buffer, line_counter, exc, blocks,
                   nonAsmVars>>

\* The environment: a listed file that is still to be read disappears between
\* resolution and render.
RemoveFile(p) ==
    /\ pc \in {"start", "files"}
    /\ \E k \in idx..Len(verified_sources) : verified_sources[k] = p
    /\ fs[p].kind = "file"
    /\ fs' = [fs EXCEPT ![p] = Absent]
    /\ UNCHANGED <<asmVars, nonAsmVars>>

NextAssemble ==
    \/ GenerateToc
    \/ SkipToc
    \/ ProcessFile
    \/ Finish
    \/ \E p \in Paths : RemoveFile(p)

SpecAssemble == InitAssemble /\ [][NextAssemble]_vars

----------------------------------------------------------------------------
(* Claims about the assembler of src/nanodoc/nanodoc.py *)

\* the line-number prefixes of the numbers 0..n
NumberPrefixes(n) == {line_number_prefix(k) : k \in 0..n}

\* the atoms of text that are in the set prefixes, in order
RECURSIVE AtomsIn(_, _)
AtomsIn(text, prefixes) ==
    IF text = <<>> THEN <<>>
    ELSE (IF Head(text) \in prefixes THEN <<Head(text)>> ELSE <<>>)
            \o AtomsIn(Tail(text), prefixes)

\* the atoms of text that are line-number prefixes of a number up to n, in order
NumberAtoms(text, n) ==
    CHOOSE atoms \in {AtomsIn(text, prefixes) : prefixes \in {NumberPrefixes(n)}} : TRUE

RECURSIVE SumNumLines(_)
SumNumLines(bs) == IF bs = <<>> THEN 0 ELSE Head(bs).num_lines + SumNumLines(Tail(bs))

\* the line number printed in TOC entry i of text: entry i is line 3 + i
\* ("", "TOC", "", entries...) and its number is the entry's fifth atom
TocEntryNumber(text, i) == splitlines(text)[3 + i][5]

\* the position in result of the header atom of source i: its block starts
\* with NL, then the header
HeaderPos(i) == (IF generate_toc THEN Len(toc) ELSE 0) + blocks[i].start + 2

AllListedExist == \A p \in Listed(verified_sources) : fs[p].kind = "file"

\* C1 (as claimed): with the TOC requested and headers shown, the number the
\* TOC prints for file i is the 1-indexed line of the final output on which
\* file i's header stands, for every list of existing files.
C1_TocNumberIsHeaderLine ==
    (pc = "done" /\ generate_toc /\ show_header /\ AllListedExist)
        => \A i \in 1..Len(verified_sources) :
              TocEntryNumber(result, i) = ToString(LineOf(result, HeaderPos(i)))

\* C2: in "all" mode the numbers prefixed to the content lines, read in output
\* order, are 1, 2, ..., T, where T is the number of content lines emitted
\* (the sum of the num_lines of the files, which is the final line_counter).
C2_GlobalNumbersAreOneToT ==
    (pc = "done" /\ line_number_mode = "all")
        => LET T == SumNumLines(blocks)
           IN  /\ NumberAtoms(result, Len(result)) = [k \in 1..T |-> line_number_prefix(k)]
               /\ line_counter = T

C2_Witness ==
    /\ pc = "done"
    /\ line_number_mode = "all"
    /\ Len(blocks) = 2
    /\ blocks[1].num_lines >= 1
    /\ blocks[2].num_lines >= 1

\* C3 (as claimed): a listed file that is gone when it is read never aborts
\* the assembly, with or without the TOC; its block is the error text and
\* counts zero content lines.
C3_MissingFileNeverAborts ==
    /\ pc # "raised"
    /\ \A i \in 1..Len(blocks) :
          ~blocks[i].found =>
              /\ blocks[i].output =
                    <<"Error: File not found: " \o PathStr(verified_sources[i]), NL>>
              /\ blocks[i].num_lines = 0

----------------------------------------------------------------------------
(* The content item model: src/nanodoc/data.py *)

MaxItemLen == 3        \* atoms in the file of a ContentItem
MaxRanges == 2         \* ranges of a ContentItem
MaxLineNo == 2         \* largest line number written in a range
MaxCalls == 2          \* get_content calls on one item

\* LineRange.end = X stands for the end-of-file token "X"
X == 0 - 1

\* the content field of an item that holds None
NoContent == <<None>>

Min(a, b) == IF a <= b THEN a ELSE b

\* Python's seq[lo:hi]
py_slice(sq, lo, hi) ==
    LET n == Len(sq)
        norm(i) == IF i < 0 THEN Max(i + n, 0) ELSE Min(i, n)
        a == norm(lo)
        b == norm(hi)
    IN  IF a >= b THEN <<>> ELSE SubSeq(sq, a + 1, b)

\* LineRange.normalize(max_lines)
normalize(r, max_lines) ==
    [start |-> r.start, end |-> IF r.end = X THEN max_lines ELSE r.end]

\* validate without the check of end against the file's line count
validate_no_end_bound(fsys, it) ==
    LET f == fsys[it.file_path]
    IN  CASE f.kind = "absent" -> "FileNotFoundError"
          [] ~f.readable       -> "PermissionError"
          [] f.kind = "dir"    -> "IsADirectoryError"
          [] OTHER ->
               LET max_lines == Len(readlines(f.data))
                   bad(r) ==
                       LET n == normalize(r, max_lines)
                       IN  \/ n.start <= 0 \/ n.end <= 0
                           \/ n.start > max_lines
                           \/ n.start > n.end
               IN  IF \E k \in 1..Len(it.ranges) : bad(it.ranges[k])
                   THEN "ValueError" ELSE "True"

\* ContentItem.validate(): "True" or the exception raised
validate(fsys, it) ==
    LET f == fsys[it.file_path]
    IN  CASE f.kind = "absent" -> "FileNotFoundError"
          [] ~f.readable       -> "PermissionError"
          [] f.kind = "dir"    -> "IsADirectoryError"
          [] OTHER ->
               LET max_lines == Len(readlines(f.data))
                   bad(r) ==
                       LET n == normalize(r, max_lines)
                       IN  \/ n.start <= 0 \/ n.end <= 0
                           \/ n.start > max_lines \/ n.end > max_lines
                           \/ n.start > n.end
               IN  IF \E k \in 1..Len(it.ranges) : bad(it.ranges[k])
                   THEN "ValueError" ELSE "True"

RECURSIVE extend_ranges(_, _, _)
\* load_content: "for range_obj in self.ranges: result.extend(all_lines[start-1:end])"
extend_ranges(all_lines, ranges, k) ==
    IF k > Len(ranges) THEN <<>>
    ELSE LET n == normalize(ranges[k], Len(all_lines))
         IN  py_slice(all_lines, n.start - 1, n.end)
                \o extend_ranges(all_lines, ranges, k + 1)

RECURSIVE sorted_ranges(_)
\* the ranges ordered by start line
sorted_ranges(ranges) ==
    IF ranges = <<>> THEN <<>>
    ELSE LET m == CHOOSE i \in 1..Len(ranges) :
                      \A j \in 1..Len(ranges) :
                          ranges[i].start < ranges[j].start
                              \/ (ranges[i].start = ranges[j].start /\ i <= j)
         IN  <<ranges[m]>> \o
                 sorted_ranges(SubSeq(ranges, 1, m - 1) \o SubSeq(ranges, m + 1, Len(ranges)))

\* load_content with the ranges sorted before they are read
load_content_sorted(fsys, it) ==
    IF it.content # NoContent
    THEN [ok |-> TRUE, val |-> it.content, item |-> it, read |-> FALSE,
          result |-> <<>>, all_lines |-> <<>>]
    ELSE LET r == open_readlines(fsys, it.file_path)
         IN  IF ~r.ok THEN [ok |-> FALSE, exc |-> r.exc, item |-> it, read |-> FALSE,
                            result |-> <<>>, all_lines |-> <<>>]
             ELSE LET res == extend_ranges(r.val, sorted_ranges(it.ranges), 1)
                      c == rstrip_nl(Join(res))
                  IN  [ok |-> TRUE, val |-> c, item |-> [it EXCEPT !.content = c],
                       read |-> TRUE, result |-> res, all_lines |-> r.val]

\* ContentItem.load_content(): the value returned, the item afterwards, whether
\* the file was read, and the locals "result" and "all_lines"
load_content(fsys, it) ==
    IF it.content # NoContent
    THEN [ok |-> TRUE, val |-> it.content, item |-> it, read |-> FALSE,
          result |-> <<>>, all_lines |-> <<>>]
    ELSE LET r == open_readlines(fsys, it.file_path)
         IN  IF ~r.ok THEN [ok |-> FALSE, exc |-> r.exc, item |-> it, read |-> FALSE,
                            result |-> <<>>, all_lines |-> <<>>]
             ELSE LET res == extend_ranges(r.val, it.ranges, 1)
                      c == rstrip_nl(Join(res))
                  IN  [ok |-> TRUE, val |-> c, item |-> [it EXCEPT !.content = c],
                       read |-> TRUE, result |-> res, all_lines |-> r.val]

\* get_content that loads on every call
get_content_always_load(fsys, it) == load_content(fsys, [it EXCEPT !.content = NoContent])

\* ContentItem.get_content()
get_content(fsys, it) ==
    IF it.content = NoContent
    THEN load_content(fsys, it)
    ELSE [ok |-> TRUE, val |-> it.content, item |-> it, read |-> FALSE,
          result |-> <<>>, all_lines |-> <<>>]

----------------------------------------------------------------------------
(* A ContentItem's life: created, validated, then read through get_content, *)
(* while the file under it may change.                                      *)

ItemPath == [dir |-> "d/", stem |-> "p", ext |-> ".txt"]

ItemContents == SeqsUpTo(AsmAlphabet, MaxItemLen)

LineRanges == [start : 0..MaxLineNo, end : (0..MaxLineNo) \cup {X}]

FileStates ==
    {Absent} \cup {[kind |-> "dir", readable |-> b, data |-> <<>>] : b \in BOOLEAN}
        \cup [kind : {"file"}, readable : BOOLEAN, data : ItemContents]

InitItem ==
    /\ \E c \in FileStates : fs = FileSystem(c, Absent, Absent)
    /\ item \in [original_arg : {PathStr(ItemPath)}, file_path : {ItemPath},
                 ranges : SeqsUpTo(LineRanges, MaxRanges), content : {NoContent}]
    /\ validated = None
    /\ returned = <<>>
    /\ calls = 0
    /\ reads = 0
    /\ writes = 0
    /\ loaded = [result |-> <<>>, all_lines |-> <<>>]
    /\ stale_hits = 0
    /\ IdleAssemble
    /\ IdleResolve
    /\ IdleParse
    /\ IdleCommands
    /\ IdleUi

\* item.validate()
Validate ==
    /\ validated = None
    /\ validated' = validate(fs, item)
    /\ UNCHANGED <<fs, nonItemVars, item, returned, calls, reads, writes, loaded,
                   stale_hits>>

\* item.get_content(), on an item that passed validation
GetContent ==
    /\ validated = "True"
    /\ calls < MaxCalls
    /\ LET r == get_content(fs, item)
       IN  /\ item' = r.item
           /\ calls' = calls + 1
           /\ returned' = IF r.ok THEN Append(returned, r.val) ELSE returned
           /\ reads' = IF r.read THEN reads + 1 ELSE reads
           /\ writes' = IF r.read THEN writes + 1 ELSE writes
           /\ loaded' = IF r.read THEN [result |-> r.result, all_lines |-> r.all_lines]
                        ELSE loaded
           /\ stale_hits' =
                 IF r.ok /\ ~r.read /\ open_readlines(fs, item.file_path) #
                                          [ok |-> TRUE, val |-> loaded.all_lines]
                 THEN stale_hits + 1 ELSE stale_hits
    /\ UNCHANGED <<fs, nonItemVars, validated>>

\* The environment: the file is deleted after validation.
DeleteFile ==
    /\ validated = "True"
    /\ fs[item.file_path].kind = "file"
    /\ fs' = [fs EXCEPT ![item.file_path] = Absent]
    /\ UNCHANGED <<nonItemVars, itemVars>>

\* The environment: the file is truncated to nothing after validation.
TruncateFile ==
    /\ validated = "True"
    /\ fs[item.file_path].kind = "file"
    /\ fs[item.file_path].data # <<>>
    /\ fs' = [fs EXCEPT ![item.file_path].data = <<>>]
    /\ UNCHANGED <<nonItemVars, itemVars>>

\* The environment: a line is put in front of the file's content after validation.
ModifyFile ==
    /\ validated = "True"
    /\ fs[item.file_path].kind = "file"
    /\ Len(fs[item.file_path].data) + 2 <= MaxItemLen
    /\ fs' = [fs EXCEPT ![item.file_path].data = <<"a", NL>> \o @]
    /\ UNCHANGED <<nonItemVars, itemVars>>

NextItem ==
    \/ Validate
    \/ GetContent
    \/ DeleteFile
    \/ TruncateFile
    \/ ModifyFile

SpecItem == InitItem /\ [][NextItem]_vars

----------------------------------------------------------------------------
(* Claims about ContentItem *)

\* range r, its sentinel end resolved to n lines, lies within 1..n
RangeFits(r, n) ==
    LET e == IF r.end = X THEN n ELSE r.end
    IN  1 <= r.start /\ r.start <= e /\ e <= n

RangesFit(ranges, n) == \A k \in 1..Len(ranges) : RangeFits(ranges[k], n)

\* the lines of each range, by index, one range after the other
RECURSIVE SpansInListOrder(_, _)
SpansInListOrder(lines, ranges) ==
    IF ranges = <<>> THEN <<>>
    ELSE LET r == Head(ranges)
             e == IF r.end = X THEN Len(lines) ELSE r.end
         IN  [j \in 1..(e - r.start + 1) |-> lines[r.start + j - 1]]
                \o SpansInListOrder(lines, Tail(ranges))

RECURSIVE SpanLengths(_, _)
SpanLengths(ranges, n) ==
    IF ranges = <<>> THEN 0
    ELSE LET r == Head(ranges)
             e == IF r.end = X THEN n ELSE r.end
         IN  (e - r.start + 1) + SpanLengths(Tail(ranges), n)

\* C5: get_content returns the selected spans concatenated in range-list
\* order, neither merged nor sorted: every range contributes its lines once,
\* in the position of the range in the list, duplicates included.
C5_SpansInRangeListOrder ==
    (reads >= 1 /\ RangesFit(item.ranges, Len(loaded.all_lines)))
        => /\ loaded.result = SpansInListOrder(loaded.all_lines, item.ranges)
           /\ Len(loaded.result) = SpanLengths(item.ranges, Len(loaded.all_lines))
           /\ \A k \in 1..Len(returned) :
                 returned[k] = rstrip_nl(Join(SpansInListOrder(loaded.all_lines, item.ranges)))

\* an out-of-order, overlapping pair of ranges was read: the first range's
\* line comes again in the second
C5_Witness ==
    /\ returned # <<>>
    /\ Len(item.ranges) = 2
    /\ RangesFit(item.ranges, Len(loaded.all_lines))
    /\ item.ranges[2].start < item.ranges[1].start
    /\ Len(loaded.result) > Len(loaded.all_lines)
    /\ loaded.all_lines[1] # loaded.all_lines[2]

\* C6: once get_content has returned a value, every later call returns the
\* same string, the file is not read again and item.content is not assigned
\* again, whatever happens to the file in between.
C6_WriteOnceCache ==
    /\ [](writes <= 1)
    /\ [][returned # <<>> =>
            /\ item'.content = item.content
            /\ reads' = reads
            /\ writes' = writes
            /\ calls' # calls => returned' = Append(returned, returned[1])]_vars

\* a second call was answered from the cache after the file had changed
C6_Witness ==
    /\ Len(returned) = 2
    /\ stale_hits >= 1
    /\ reads = 1

\* C7: validate returns True exactly when the file exists, is readable, is not
\* a directory and every range, its sentinel end resolved to the line count,
\* satisfies 1 <= start <= end <= line_count; otherwise it raises one of the
\* four errors.
C7_ValidateExact ==
    [][(validated = None /\ validated' # None) =>
          LET f == fs[item.file_path]
              accepted == /\ f.kind # "absent" /\ f.readable /\ f.kind # "dir"
                          /\ RangesFit(item.ranges, Len(readlines(f.data)))
          IN  /\ (validated' = "True") <=> accepted
              /\ ~accepted => validated' \in {"FileNotFoundError", "PermissionError",
                                              "IsADirectoryError", "ValueError"}
              /\ f.kind = "absent" => validated' = "FileNotFoundError"
              /\ (f.kind = "file" /\ f.readable) => validated' \in {"True", "ValueError"}]_vars

C7_Witness ==
    /\ validated = "True"
    /\ Len(item.ranges) = 2
    /\ item.ranges[1].end = X
    /\ item.ranges[2].end # X
    /\ calls = 0


(***************************************************************************)
(* Argument resolution: src/nanodoc/nanodoc.py *)
(***************************************************************************)
MaxManifestLines == 6  \* lines in a candidate bundle file

Whitespace == {" ", NL}

RECURSIVE lstrip(_)
lstrip(s) == IF s # <<>> /\ Head(s) \in Whitespace THEN lstrip(Tail(s)) ELSE s

RECURSIVE rstrip(_)
rstrip(s) ==
    IF s # <<>> /\ s[Len(s)] \in Whitespace THEN rstrip(SubSeq(s, 1, Len(s) - 1)) ELSE s

\* str.strip()
strip(s) == rstrip(lstrip(s))

\* A path name is a str; it names the file p when it is the one atom PathStr(p).
Names(name) == {p \in Paths : name = <<PathStr(p)>>}

PathOf(name) == CHOOSE p \in Paths : name = <<PathStr(p)>>

\* os.path.isfile(name)
isfile(fsys, name) == \E p \in Names(name) : fsys[p].kind = "file"

\* os.path.exists(name)
exists(fsys, name) == \E p \in Names(name) : fsys[p].kind # "absent"

\* the decimal digits; the i-th has the value i - 1
Digits == <<"0", "1", "2", "3", "4", "5", "6", "7", "8", "9">>

IsDigit(c) == \E i \in 1..Len(Digits) : Digits[i] = c

DigitValue(c) == (CHOOSE i \in 1..Len(Digits) : Digits[i] = c) - 1

\* int(s): the argument without its optional sign; s is already stripped
int_digits(t) == IF t # <<>> /\ Head(t) \in {"+", "-"} THEN Tail(t) ELSE t

int_sign(t) == IF t # <<>> /\ Head(t) = "-" THEN 0 - 1 ELSE 1

\* int(s): decimal digits, single underscores allowed between two digits
digits_ok(u) ==
    /\ u # <<>>
    /\ IsDigit(u[1])
    /\ IsDigit(u[Len(u)])
    /\ \A i \in 1..Len(u) : IsDigit(u[i]) \/ (u[i] = "_" /\ i > 1 /\ IsDigit(u[i - 1]))

RECURSIVE int_value(_)
int_value(u) ==
    IF u = <<>> THEN 0
    ELSE IF u[Len(u)] = "_" THEN int_value(SubSeq(u, 1, Len(u) - 1))
    ELSE 10 * int_value(SubSeq(u, 1, Len(u) - 1)) + DigitValue(u[Len(u)])

\* int(s) of a str: surrounding whitespace is ignored, then an optional sign, then the
\* digits; int_ok(s) is "int(s) does not raise ValueError"
int_ok(s) == digits_ok(int_digits(strip(s)))

int(s) == int_sign(strip(s)) * int_value(int_digits(strip(s)))

\* str.split(sep) for a one-atom separator
RECURSIVE split(_, _)
split(s, sep) ==
    IF \E i \in 1..Len(s) : s[i] = sep
    THEN LET k == CHOOSE i \in 1..Len(s) : s[i] = sep /\ \A j \in 1..(i - 1) : s[j] # sep
         IN  <<SubSeq(s, 1, k - 1)>> \o split(SubSeq(s, k + 1, Len(s)), sep)
    ELSE <<s>>

ValueError == [ok |-> FALSE, exc |-> "ValueError"]

\* parse_line_reference, range reference: "start, end = map(int, num_part.split("-"))"
parse_range(pieces) ==
    IF \E i \in 1..Len(pieces) : ~int_ok(pieces[i]) THEN ValueError
    ELSE IF Len(pieces) # 2 THEN ValueError
    ELSE IF int(pieces[1]) <= 0 \/ int(pieces[2]) <= 0 THEN ValueError
    ELSE IF int(pieces[1]) > int(pieces[2]) THEN ValueError
    ELSE [ok |-> TRUE, val |-> <<int(pieces[1]), int(pieces[2])>>]

\* parse_line_reference, single line reference: "line_num = int(num_part)"
parse_single(num_part) ==
    IF ~int_ok(num_part) THEN ValueError
    ELSE IF int(num_part) <= 0 THEN ValueError
    ELSE [ok |-> TRUE, val |-> <<int(num_part), int(num_part)>>]

\* parse_line_reference: what follows the "L" of one part
parse_num_part(num_part) ==
    IF \E i \in 1..Len(num_part) : num_part[i] = "-"
    THEN parse_range(split(num_part, "-"))
    ELSE parse_single(num_part)

\* parse_line_reference: one comma-separated part
parse_part(part) ==
    IF part = <<>> \/ Head(part) # "L" THEN ValueError ELSE parse_num_part(Tail(part))

RECURSIVE deduplicated(_)
deduplicated(vs) ==
    IF vs = <<>> THEN <<>>
    ELSE IF \E j \in 1..(Len(vs) - 1) : vs[j] = vs[Len(vs)]
    THEN deduplicated(SubSeq(vs, 1, Len(vs) - 1))
    ELSE Append(deduplicated(SubSeq(vs, 1, Len(vs) - 1)), vs[Len(vs)])

\* parse_line_reference with a loop that drops a range it has already collected
parse_parts_deduplicated(ps) ==
    IF \E i \in 1..Len(ps) : ~ps[i].ok THEN ValueError
    ELSE [ok |-> TRUE, val |-> deduplicated([i \in 1..Len(ps) |-> ps[i].val])]

\* parse_line_reference: the loop over the parts
parse_parts(ps) ==
    IF \E i \in 1..Len(ps) : ~ps[i].ok THEN ValueError
    ELSE [ok |-> TRUE, val |-> [i \in 1..Len(ps) |-> ps[i].val]]

\* line_ref.split(","), each part parsed
parsed_parts(ps) == [i \in 1..Len(ps) |-> parse_part(ps[i])]

\* parse_line_reference(line_ref): the list of (start, end) tuples, or ValueError
parse_line_reference(line_ref) ==
    IF line_ref = <<>> THEN ValueError
    ELSE parse_parts(parsed_parts(split(line_ref, ",")))

RECURSIVE extend_parts(_, _, _)
\* get_file_content: "for start, end in parts: result.extend(lines[start - 1 : end])"
extend_parts(lines, parts, k) ==
    IF k > Len(parts) THEN <<>>
    ELSE py_slice(lines, parts[k][1] - 1, parts[k][2]) \o extend_parts(lines, parts, k + 1)

\* get_file_content with parts, once the lines are read
select_parts(r, parts) ==
    IF ~r.ok THEN r
    ELSE IF \E k \in 1..Len(parts) :
               \/ parts[k][1] <= 0 \/ parts[k][2] <= 0
               \/ parts[k][1] > Len(r.val) \/ parts[k][2] > Len(r.val)
         THEN ValueError
         ELSE [ok |-> TRUE, val |-> rstrip_nl(Join(extend_parts(r.val, parts, 1)))]

\* get_file_content(file_path, parts=parts)
get_file_content_parts(fsys, p, parts) == select_parts(open_readlines(fsys, p), parts)

\* is_bundle_file: "for _ in range(5)"
SniffWindow == 5

\* the loop of is_bundle_file from its k-th readline() on; past the end of the file
\* readline() returns the empty string
RECURSIVE is_bundle_loop(_, _, _)
is_bundle_loop(fsys, lines, k) ==
    IF k > SniffWindow THEN FALSE
    ELSE LET line == strip(IF k <= Len(lines) THEN lines[k] ELSE <<>>)
         IN  IF line = <<>> THEN is_bundle_loop(fsys, lines, k + 1)
             ELSE IF Head(line) = "#" THEN is_bundle_loop(fsys, lines, k + 1)
             ELSE isfile(fsys, line)

\* is_bundle_file(file_path): every exception of open() gives False
is_bundle_file(fsys, name) ==
    IF ~isfile(fsys, name) \/ ~fsys[PathOf(name)].readable THEN FALSE
    ELSE is_bundle_loop(fsys, readlines(fsys[PathOf(name)].data), 1)

(***************************************************************************)
(* Expansion, verification and ordering of the arguments *)
(***************************************************************************)
\* the one directory of the model; the files under it are the paths with dir "d/"
DirName == <<"d">>

\* os.path.isdir(name)
isdir(fsys, name) ==
    name = DirName \/ \E p \in Names(name) : fsys[p].kind = "dir"

\* os.path.exists(name), directories included
path_exists(fsys, name) == name = DirName \/ exists(fsys, name)

\* os.access(name, os.R_OK)
readable(fsys, name) == name = DirName \/ \E p \in Names(name) : fsys[p].readable

\* ":L" in arg
HasRef(arg) == \E i \in 1..Len(arg) : arg[i] = ":L"

RefPos(arg) == CHOOSE i \in 1..Len(arg) : arg[i] = ":L" /\ \A j \in 1..(i - 1) : arg[j] # ":L"

\* arg.split(":L", 1)[0]
FilePathOf(arg) == IF HasRef(arg) THEN SubSeq(arg, 1, RefPos(arg) - 1) ELSE arg

\* "L" + arg.split(":L", 1)[1]
LineRefOf(arg) == <<"L">> \o SubSeq(arg, RefPos(arg) + 1, Len(arg))

\* verify_path: "parts = parse_line_reference(line_ref); get_file_content(file_path,
\* parts=parts)", then "return file_path"
validate_line_ref(fsys, file_path, parts) ==
    IF ~parts.ok THEN ValueError
    ELSE IF get_file_content_parts(fsys, PathOf(file_path), parts.val).ok
         THEN [ok |-> TRUE, val |-> file_path]
         ELSE ValueError

\* verify_path, with path split at its line reference
verify_file_path(fsys, path, file_path) ==
    IF ~path_exists(fsys, file_path) THEN [ok |-> FALSE, exc |-> "FileNotFoundError"]
    ELSE IF ~readable(fsys, file_path) THEN [ok |-> FALSE, exc |-> "PermissionError"]
    ELSE IF isdir(fsys, file_path) THEN [ok |-> FALSE, exc |-> "IsADirectoryError"]
    ELSE IF HasRef(path)
         THEN validate_line_ref(fsys, file_path, parse_line_reference(LineRefOf(path)))
         ELSE [ok |-> TRUE, val |-> file_path]

\* verify_path(path): the path without its line reference, or the exception raised
verify_path(fsys, path) == verify_file_path(fsys, path, FilePathOf(path))

\* the paths of the model in the order sorted() gives their strings
PathOrder == << [dir |-> "", stem |-> "a_b", ext |-> ".md"],
                [dir |-> "d/", stem |-> "p", ext |-> ".txt"],
                [dir |-> "", stem |-> "m", ext |-> ".txt"] >>

\* expand_directory(directory): the .txt and .md files under it, sorted
expand_directory(fsys, directory) ==
    LET Match(p) == /\ p.dir = "d/"
                    /\ fsys[p].kind = "file"
                    /\ p.ext \in {".txt", ".md"}
        matches == SelectSeq(PathOrder, Match)
    IN  [i \in 1..Len(matches) |-> <<PathStr(matches[i])>>]

\* expand_bundles: "except ValueError as e: raise BundleError(...)"
as_bundle_error(g) ==
    IF ~g.ok /\ g.exc = "ValueError" THEN [ok |-> FALSE, exc |-> "BundleError"] ELSE g

\* expand_bundles with a line reference: only the specified lines are read
bundle_content_parts(fsys, file_path, parts) ==
    IF ~parts.ok THEN [ok |-> FALSE, exc |-> "BundleError"]
    ELSE as_bundle_error(get_file_content_parts(fsys, PathOf(file_path), parts.val))

\* expand_bundles: the stripped non-empty lines that are not "#" comments
bundle_entries(content) ==
    IF ~content.ok THEN content
    ELSE LET IsEntry(l) == l # <<>> /\ Head(l) # "#"
         IN  [ok |-> TRUE,
              val |-> SelectSeq([i \in 1..Len(splitlines(content.val)) |->
                                    strip(splitlines(content.val)[i])], IsEntry)]

\* expand_bundles(bundle_file): the entries of the manifest, not validated
expand_bundles(fsys, bundle_file) ==
    IF HasRef(bundle_file)
    THEN bundle_entries(bundle_content_parts(fsys, FilePathOf(bundle_file),
                            parse_line_reference(LineRefOf(bundle_file))))
    ELSE bundle_entries(get_file_content(fsys, PathOf(FilePathOf(bundle_file))))

\* expand_args: expand_single_arg(arg)
expand_single_arg(fsys, arg) ==
    IF isdir(fsys, arg) THEN [ok |-> TRUE, val |-> expand_directory(fsys, arg)]
    ELSE IF is_bundle_file(fsys, FilePathOf(arg)) THEN expand_bundles(fsys, arg)
    ELSE [ok |-> TRUE, val |-> <<arg>>]

\* two results in sequence: the first exception, or the lists concatenated
concat_results(h, t) ==
    IF ~h.ok THEN h
    ELSE IF ~t.ok THEN t
    ELSE [ok |-> TRUE, val |-> h.val \o t.val]

RECURSIVE expand_args(_, _)
\* expand_args(args): the expansions flattened, or the first exception
expand_args(fsys, srcs) ==
    IF srcs = <<>> THEN [ok |-> TRUE, val |-> <<>>]
    ELSE concat_results(expand_single_arg(fsys, Head(srcs)), expand_args(fsys, Tail(srcs)))

\* get_files_from_args, phase 2, one iteration: a missing, unreadable or directory
\* path is skipped, any other exception leaves the function
keep_verified(h, t) ==
    IF h.ok THEN (IF t.ok THEN [ok |-> TRUE, val |-> <<h.val>> \o t.val] ELSE t)
    ELSE IF h.exc \in {"FileNotFoundError", "PermissionError", "IsADirectoryError"} THEN t
    ELSE h

RECURSIVE verify_all(_, _)
\* get_files_from_args, phase 2: the verified paths
verify_all(fsys, expanded) ==
    IF expanded = <<>> THEN [ok |-> TRUE, val |-> <<>>]
    ELSE keep_verified(verify_path(fsys, Head(expanded)), verify_all(fsys, Tail(expanded)))

\* the stems of the model in the order Python compares their strings
StemOrder == <<"a_b", "m", "p">>

StemRank(stem) == CHOOSE i \in 1..Len(StemOrder) : StemOrder[i] = stem

\* a sort key that ranks the extensions by their own spelling
file_sort_key_by_extension_name(p) ==
    <<StemRank(p.stem),
      IF p.ext = ".md" THEN 0 ELSE IF p.ext = ".py" THEN 1 ELSE IF p.ext = ".rst" THEN 2 ELSE 3>>

\* file_sort_key(path): (base_name, ext_priority), as a pair of numbers
file_sort_key(p) ==
    <<StemRank(p.stem), IF p.ext = ".txt" THEN 0 ELSE IF p.ext = ".md" THEN 1 ELSE 2>>

KeyLess(k1, k2) == k1[1] < k2[1] \/ (k1[1] = k2[1] /\ k1[2] < k2[2])

\* x put into the sorted list ps behind every element whose key is not greater
RECURSIVE insert_by_key(_, _)
insert_by_key(x, ps) ==
    IF ps = <<>> THEN <<x>>
    ELSE IF KeyLess(file_sort_key(x), file_sort_key(Head(ps))) THEN <<x>> \o ps
    ELSE <<Head(ps)>> \o insert_by_key(x, Tail(ps))

\* sorted(verified_sources, key=file_sort_key): a stable sort
RECURSIVE sorted_by_key(_)
sorted_by_key(ps) ==
    IF ps = <<>> THEN <<>>
    ELSE insert_by_key(ps[Len(ps)], sorted_by_key(SubSeq(ps, 1, Len(ps) - 1)))

\* get_files_from_args: "sorted(verified_sources, key=file_sort_key)"
sort_verified(v) ==
    IF ~v.ok THEN v
    ELSE [ok |-> TRUE, val |-> sorted_by_key([i \in 1..Len(v.val) |-> PathOf(v.val[i])])]

\* get_files_from_args, from the expanded list on
verify_expanded(fsys, e) ==
    IF ~e.ok THEN e
    ELSE IF e.val = <<>> THEN e
    ELSE sort_verified(verify_all(fsys, e.val))

\* get_files_from_args(srcs): the verified paths, sorted
get_files_from_args(fsys, srcs) == verify_expanded(fsys, expand_args(fsys, srcs))

(***************************************************************************)
(* main(): the arguments are resolved, the files assembled, the text printed *)
(***************************************************************************)
MaxArgs == 2           \* arguments on the command line

\* what may follow ":L" in an argument
Selectors ==
    { <<"2">>, <<"2", ",", "L", "1">>, <<"3">> }

ArgStrings ==
    {<<PathStr(p)>> : p \in ContentPaths \cup {BundlePath}} \cup {DirName}
    \cup {<<PathStr(p), ":L">> \o sel : p \in ContentPaths, sel \in Selectors}
    \cup {<<PathStr(BundlePath), ":L", "2">>}

\* the manifests of the model
MainManifests ==
    { <<"d/p.txt", NL>>,
      <<"#", "t", NL, NL, "d/p.txt", ":L", "2", NL, " ", "a_b.md", NL>>,
      <<"t", NL, "d/p.txt", NL>> }

\* the namespace parse_args returns
Options ==
    [line_number_mode : {None, "all"}, toc : BOOLEAN, no_header : BOOLEAN,
     header : {<<None, "nice">>}]

\* the files an argument list can lead to
Mentioned(srcs) ==
    {p \in Paths : \E k \in 1..Len(srcs) :
        \/ FilePathOf(srcs[k]) = <<PathStr(p)>>
        \/ FilePathOf(srcs[k]) = <<PathStr(BundlePath)>>
        \/ srcs[k] = DirName /\ p.dir = "d/"}

\* the states a file of the run starts in: a file that no argument leads to is absent
StartStates(srcs, p) ==
    IF p \notin Mentioned(srcs) THEN {Absent}
    ELSE IF p = BundlePath THEN {Absent} \cup {RegularFile(m) : m \in MainManifests}
    ELSE {Absent} \cup {RegularFile(d) : d \in SeqsUpTo(AsmAlphabet, MaxContentLen)}

InitMain ==
    /\ args \in SeqsUpTo(ArgStrings, MaxArgs) \ {<<>>}
    /\ options \in Options
    /\ \E c1 \in StartStates(args, PathOrder[1]) :
         \E c2 \in StartStates(args, PathOrder[2]) :
            \E c3 \in StartStates(args, PathOrder[3]) :
               fs = FileSystem(c2, c1, c3)
    /\ sniffed = None
    /\ exit_status = None
    /\ IdleAssemble
    /\ IdleItem
    /\ IdleParse
    /\ IdleCommands
    /\ IdleUi

\* main: get_files_from_args(args.sources), then the call of process_files or exit 1
Resolve ==
    /\ pc = "idle"
    /\ args # <<>>
    /\ exit_status = None
    /\ \E r \in {get_files_from_args(fs, args)} :
           IF r.ok /\ r.val # <<>>
           THEN /\ verified_sources' = r.val
                /\ line_number_mode' = options.line_number_mode
                /\ generate_toc' = options.toc
                /\ show_header' = ~options.no_header
                /\ sequence' = options.header[1]
                /\ style' = options.header[2]
                /\ pc' = "start"
                /\ UNCHANGED <<exc, exit_status>>
           ELSE /\ exit_status' = "1"
                /\ exc' = IF r.ok THEN exc ELSE r.exc
                /\ UNCHANGED <<verified_sources, line_number_mode, generate_toc,
                               show_header, sequence, style, pc>>
    /\ UNCHANGED <<fs, toc, idx, output_buffer, line_counter, result, blocks, itemVars,
                   args, options, sniffed, parseVars, cmdVars, uiVars>>

\* main: print(output)
PrintOutput ==
    /\ pc = "done"
    /\ args # <<>>
    /\ exit_status = None
    /\ exit_status' = "0"
    /\ UNCHANGED <<fs, asmVars, itemVars, args, options, sniffed, parseVars, cmdVars, uiVars>>

\* main: "except Exception as e: ... sys.exit(1)"
ExitOnException ==
    /\ pc = "raised"
    /\ args # <<>>
    /\ exit_status = None
    /\ exit_status' = "1"
    /\ UNCHANGED <<fs, asmVars, itemVars, args, options, sniffed, parseVars, cmdVars, uiVars>>

NextMain ==
    \/ Resolve
    \/ GenerateToc
    \/ SkipToc
    \/ ProcessFile
    \/ Finish
    \/ \E p \in Paths : RemoveFile(p)
    \/ PrintOutput
    \/ ExitOnException

SpecMain == InitMain /\ [][NextMain]_vars

(***************************************************************************)
(* is_bundle_file applied to one candidate file *)
(***************************************************************************)
ExistingPath == [dir |-> "d/", stem |-> "p", ext |-> ".txt"]

MissingPath == [dir |-> "", stem |-> "a_b", ext |-> ".md"]

\* the lines a candidate file is made of, without their line break
ManifestLines ==
    { <<>>, <<"#", "t">>, <<" ", "#">>, <<"t">>,
      <<PathStr(ExistingPath)>>, <<" ", PathStr(ExistingPath), " ">>,
      <<PathStr(MissingPath)>> }

RECURSIVE JoinLines(_)
JoinLines(ls) == IF ls = <<>> THEN <<>> ELSE Head(ls) \o <<NL>> \o JoinLines(Tail(ls))

\* what the candidate file may be: missing, a directory, unreadable, or a manifest
CandidateStates(ls) ==
    {Absent, [kind |-> "dir", readable |-> TRUE, data |-> <<>>],
     [kind |-> "file", readable |-> FALSE, data |-> JoinLines(ls)],
     RegularFile(JoinLines(ls))}

InitSniff ==
    /\ \E ls \in SeqsUpTo(ManifestLines, MaxManifestLines) :
          \E cand \in CandidateStates(ls) :
             fs = [p \in Paths |-> IF p = BundlePath THEN cand
                                   ELSE IF p = ExistingPath THEN RegularFile(<<>>)
                                   ELSE Absent]
    /\ IdleAssemble
    /\ IdleItem
    /\ IdleResolve
    /\ IdleParse
    /\ IdleCommands
    /\ IdleUi

Sniff ==
    /\ sniffed = None
    /\ sniffed' = IF is_bundle_file(fs, <<PathStr(BundlePath)>>) THEN "True" ELSE "False"
    /\ UNCHANGED <<fs, asmVars, itemVars, args, options, exit_status, parseVars, cmdVars, uiVars>>

NextSniff == Sniff

SpecSniff == InitSniff /\ [][NextSniff]_vars

(***************************************************************************)
(* Claims about is_bundle_file *)
(***************************************************************************)
\* the line numbers of the lines that are neither blank nor a "#" comment
SignificantLines(lines) ==
    {k \in 1..Len(lines) : strip(lines[k]) # <<>> /\ Head(strip(lines[k])) # "#"}

FirstSignificant(lines) ==
    CHOOSE k \in SignificantLines(lines) : \A j \in SignificantLines(lines) : k <= j

CandidateLines == readlines(fs[BundlePath].data)

\* C8: a readable file is classified as a bundle exactly when its first line that is
\* neither blank nor a "#" comment is the path of an existing file, however many blank
\* and comment lines precede that line.
C8_FirstSignificantLineDecides ==
    (sniffed # None /\ fs[BundlePath].kind = "file" /\ fs[BundlePath].readable)
        => (sniffed = "True"
              <=> /\ SignificantLines(CandidateLines) # {}
                  /\ isfile(fs, strip(CandidateLines[FirstSignificant(CandidateLines)])))


----------------------------------------------------------------------------
(* Claims about the resolution of the arguments *)

\* C4: an argument "path:L..." that names an existing file and lines inside it is
\* assembled as exactly the selected lines: the document holds as many content lines
\* as the selector selects.
C4_SelectorReachesDocument ==
    \A p \in ContentPaths, sel \in Selectors :
        (/\ exit_status = "0"
         /\ args = << <<PathStr(p), ":L">> \o sel >>
         /\ fs[p].kind = "file")
            => blocks[1].num_lines =
                   Len(extend_parts(readlines(fs[p].data),
                                    parse_line_reference(<<"L">> \o sel).val, 1))


----------------------------------------------------------------------------
(* The assembler of src/nanodoc/core.py: a source is (file_path, line_parts); *)
(* line_parts is a list of (start, end) tuples, empty for the whole file.     *)
(* get_file_content, apply_style_to_filename and create_header are imported   *)
(* there under the names that src/nanodoc/nanodoc.py defines.                 *)

\* process_all / generate_table_of_contents: the content of one source
core_content(fsys, src) ==
    IF src.line_parts # <<>>
    THEN get_file_content_parts(fsys, src.path, src.line_parts)
    ELSE get_file_content(fsys, src.path)

RECURSIVE core_toc_line_loop(_, _, _, _, _)
\* generate_table_of_contents, the loop that fills toc_line_numbers
core_toc_line_loop(fsys, srcs, k, current_line, numbers) ==
    IF k > Len(srcs) THEN [ok |-> TRUE, val |-> numbers]
    ELSE LET r == core_content(fsys, srcs[k])
         IN  IF ~r.ok THEN r
             ELSE core_toc_line_loop(fsys, srcs, k + 1,
                                     current_line + Len(splitlines(r.val)) + 3,
                                     [numbers EXCEPT ![srcs[k].path] = current_line + 3])

RECURSIVE range_info(_)
\* ", ".join(range_info): "L5" for a single line, "L5-7" for a range
range_info(parts) ==
    IF parts = <<>> THEN ""
    ELSE (IF Head(parts)[1] = Head(parts)[2]
          THEN "L" \o ToString(Head(parts)[1])
          ELSE "L" \o ToString(Head(parts)[1]) \o "-" \o ToString(Head(parts)[2]))
         \o (IF Len(parts) > 1 THEN ", " ELSE "")
         \o range_info(Tail(parts))

\* generate_table_of_contents: the name of a source in its TOC entry
core_formatted_name(src, sty) ==
    IF src.line_parts # <<>>
    THEN apply_style_to_filename(src.path, sty) \o " (" \o range_info(src.line_parts) \o ")"
    ELSE apply_style_to_filename(src.path, sty)

\* the last source of srcs with path p: formatted_filenames is a dict keyed by path
LastWithPath(srcs, p) ==
    srcs[CHOOSE k \in 1..Len(srcs) :
            srcs[k].path = p /\ \A j \in (k + 1)..Len(srcs) : srcs[j].path # p]

\* generate_table_of_contents, the text once toc_line_numbers is known
core_toc_text(srcs, sty, numbers) ==
    LET listed == {srcs[k].path : k \in 1..Len(srcs)}
        formatted == [p \in listed |-> core_formatted_name(LastWithPath(srcs, p), sty)]
        max_filename_length == MaxOver([p \in listed |-> Len(formatted[p])], listed)
        entry(k) ==
            << formatted[srcs[k].path], " ",
               Repeat(".", max_filename_length - Len(formatted[srcs[k].path]) + 5),
               " ", ToString(numbers[srcs[k].path]), NL >>
    IN  <<NL, create_header_text("TOC"), NL, NL>>
           \o Join([k \in 1..Len(srcs) |-> entry(k)]) \o <<NL>>

\* the result of the loop turned into the result of generate_table_of_contents
core_toc_result(srcs, sty, r) ==
    IF ~r.ok THEN r
    ELSE [ok |-> TRUE, val |-> core_toc_text(srcs, sty, r.val), toc_line_numbers |-> r.val]

\* generate_table_of_contents(verified_sources, style) of core.py
core_generate_table_of_contents(fsys, srcs, sty) ==
    core_toc_result(srcs, sty,
        core_toc_line_loop(fsys, srcs, 1, toc_size(srcs), [p \in Paths |-> 0]))


RECURSIVE numbered_lines(_, _)
\* process_file: "for start, end in line_parts: for i in range(start - 1, end):
\* if i < len(all_lines): lines_with_numbers.append((i + 1, all_lines[i]))"
numbered_lines(all_lines, parts) ==
    IF parts = <<>> THEN <<>>
    ELSE LET start == Head(parts)[1]
             last == Min(Head(parts)[2], Len(all_lines))
         IN  [j \in 1..Max(0, last - start + 1) |-> <<start + j - 1, all_lines[start + j - 1]>>]
                \o numbered_lines(all_lines, Tail(parts))

\* x put into the sorted list behind every entry whose line number is not greater
RECURSIVE insert_by_number(_, _)
insert_by_number(x, ls) ==
    IF ls = <<>> THEN <<x>>
    ELSE IF x[1] < Head(ls)[1] THEN <<x>> \o ls
    ELSE <<Head(ls)>> \o insert_by_number(x, Tail(ls))

\* lines_with_numbers.sort(key=lambda x: x[0])
RECURSIVE sort_by_number(_)
sort_by_number(ls) ==
    IF ls = <<>> THEN <<>>
    ELSE insert_by_number(ls[Len(ls)], sort_by_number(SubSeq(ls, 1, Len(ls) - 1)))

\* process_file: lines_with_numbers of a whole file
enumerate_lines(lines) == [i \in 1..Len(lines) |-> <<i, lines[i]>>]

\* the number of a ranged line counted from 1 within its file's selection
core_line_number_restarting(mode, counter, i, line_num) ==
    CASE mode = "all"  -> <<line_number_prefix(counter + i + 1)>>
      [] mode = "file" -> <<line_number_prefix(i + 1)>>
      [] OTHER         -> <<>>

\* process_file: the number printed before entry i (0-based) of lines_with_numbers
core_line_number(mode, counter, i, line_num) ==
    CASE mode = "all"  -> <<line_number_prefix(counter + i + 1)>>
      [] mode = "file" -> <<line_number_prefix(line_num)>>
      [] OTHER         -> <<>>

\* process_file: the output built from the header and lines_with_numbers
core_format(p, lwn, mode, counter, hdr, seqstyle, seq_index, sty) ==
    [ok |-> TRUE,
     output |-> (IF hdr THEN <<NL, create_header(p, seqstyle, seq_index, sty), NL, NL>>
                 ELSE <<>>)
                \o Join([i \in 1..Len(lwn) |->
                            core_line_number(mode, counter, i - 1, lwn[i][1]) \o lwn[i][2]]),
     num_lines |-> Len(lwn), found |-> TRUE]

\* process_file, once the content is read
core_process_content(fsys, src, r, mode, counter, hdr, seqstyle, seq_index, sty) ==
    IF ~r.ok /\ r.exc = "FileNotFoundError"
    THEN [ok |-> TRUE, output |-> <<"Error: File not found: " \o PathStr(src.path), NL>>,
          num_lines |-> 0, found |-> FALSE]
    ELSE IF ~r.ok THEN r
    ELSE IF src.line_parts # <<>>
         THEN core_format(src.path,
                  sort_by_number(numbered_lines(open_readlines(fsys, src.path).val,
                                                src.line_parts)),
                  mode, counter, hdr, seqstyle, seq_index, sty)
         ELSE core_format(src.path, enumerate_lines(readlines(r.val)),
                  mode, counter, hdr, seqstyle, seq_index, sty)

\* process_file(file_path, line_number_mode, line_counter, show_header, sequence,
\*              seq_index, style, line_parts) of core.py
core_process_file(fsys, src, mode, counter, hdr, seqstyle, seq_index, sty) ==
    core_process_content(fsys, src, core_content(fsys, src), mode, counter, hdr,
                         seqstyle, seq_index, sty)


(***************************************************************************)
(* process_all of core.py as a state machine *)
(***************************************************************************)
\* the (start, end) tuples a verified source can carry
PartTuples == {<<a, b>> : a \in 1..MaxLineNo, b \in 1..MaxLineNo}

\* the sources that resolution accepts for the files as they are: each range has
\* 1 <= start <= end <= number of lines
ValidSources(fsys) ==
    {src \in [path : ContentPaths, line_parts : SeqsUpTo(PartTuples, MaxRanges)] :
        /\ fsys[src.path].kind = "file"
        /\ \A k \in 1..Len(src.line_parts) :
              /\ src.line_parts[k][1] <= src.line_parts[k][2]
              /\ src.line_parts[k][2] <= Len(readlines(fsys[src.path].data))}

CoreHeaderConfigs == {<<None, None>>, <<"numerical", "nice">>}

InitCore ==
    /\ \E cp, ca \in {Absent} \cup
                      {RegularFile(d) : d \in SeqsUpTo(AsmAlphabet, MaxContentLen)} :
           fs = FileSystem(cp, ca, Absent)
    /\ verified_sources \in SeqsUpTo(ValidSources(fs), MaxSources) \ {<<>>}
    /\ \A p \in ContentPaths :
          fs[p].kind = "file" => \E k \in 1..Len(verified_sources) : verified_sources[k].path = p
    /\ line_number_mode \in LineNumberModes
    /\ generate_toc \in BOOLEAN
    /\ show_header \in BOOLEAN
    /\ \E hc \in CoreHeaderConfigs : sequence = hc[1] /\ style = hc[2]
    /\ pc = "start"
    /\ toc = <<>>
    /\ idx = 1
    /\ output_buffer = <<>>
    /\ line_counter = 0
    /\ result = <<>>
    /\ exc = None
    /\ blocks = <<>>
    /\ IdleItem
    /\ IdleResolve
    /\ IdleParse
    /\ IdleCommands
    /\ IdleUi

\* process_all: "if generate_toc: toc, _ = generate_table_of_contents(...)"
CoreGenerateToc ==
    /\ pc = "start"
    /\ generate_toc
    /\ \E r \in {core_generate_table_of_contents(fs, verified_sources, style)} :
          IF r.ok
          THEN /\ toc' = r.val
               /\ pc' = "files"
               /\ exc' = exc
          ELSE /\ toc' = toc
               /\ pc' = "raised"
               /\ exc' = r.exc
    /\ UNCHANGED <<fs, verified_sources, line_number_mode, generate_toc, show_header,
                   sequence, style, idx, output_buffer, line_counter, result, blocks,
                   nonAsmVars>>

\* process_all: one iteration of "for i, (source_file, line_parts) in enumerate(...)"
CoreProcessFile ==
    /\ pc = "files"
    /\ idx <= Len(verified_sources)
    /\ \E c \in {counter_for_file(line_number_mode, line_counter)} :
         \E r \in {core_process_file(fs, verified_sources[idx], line_number_mode, c,
                                     show_header, sequence, idx - 1, style)} :
           IF r.ok
           THEN /\ output_buffer' = output_buffer \o r.output
                /\ line_counter' = c + r.num_lines
                /\ blocks' = Append(blocks, [start |-> Len(output_buffer),
                                             num_lines |-> r.num_lines,
                                             found |-> r.found,
                                             output |-> r.output])
                /\ idx' = idx + 1
                /\ UNCHANGED <<pc, exc>>
           ELSE /\ pc' = "raised"
                /\ exc' = r.exc
                /\ UNCHANGED <<output_buffer, line_counter, blocks, idx>>
    /\ UNCHANGED <<fs, verified_sources, line_number_mode, generate_toc, show_header,
                   sequence, style, toc, result, nonAsmVars>>

\* The environment: the file of a source that is still to be read disappears between
\* resolution and render.
CoreRemoveFile(p) ==
    /\ pc \in {"start", "files"}
    /\ \E k \in idx..Len(verified_sources) : verified_sources[k].path = p
    /\ fs[p].kind = "file"
    /\ fs' = [fs EXCEPT ![p] = Absent]
    /\ UNCHANGED <<asmVars, nonAsmVars>>

NextCore ==
    \/ CoreGenerateToc
    \/ SkipToc
    \/ CoreProcessFile
    \/ Finish
    \/ \E p \in ContentPaths : CoreRemoveFile(p)

SpecCore == InitCore /\ [][NextCore]_vars


----------------------------------------------------------------------------
(* Claims about per-file numbering *)

\* how many of the ranges contain line n
Covering(parts, n) == Cardinality({k \in 1..Len(parts) : parts[k][1] <= n /\ n <= parts[k][2]})

\* the numbers of the selected lines in ascending order, a line selected by several
\* ranges once for each: the numbers from n up to top
RECURSIVE SelectedAscending(_, _, _)
SelectedAscending(parts, n, top) ==
    IF n > top THEN <<>>
    ELSE [j \in 1..Covering(parts, n) |-> n] \o SelectedAscending(parts, n + 1, top)

\* the number prefixes printed in block i
BlockNumbers(i) == NumberAtoms(blocks[i].output, Len(output_buffer) + MaxLineNo)

----------------------------------------------------------------------------
(* Claims about the order of the TOC numbers *)

\* the number printed in TOC entry i of the table toc
TocEntryValue(i) ==
    CHOOSE n \in 0..(Len(toc) + Len(verified_sources) * (MaxContentLen + 3)) :
        ToString(n) = TocEntryNumber(toc, i)

\* C11: the line numbers listed in the TOC are positive and strictly increasing in
\* entry order, for every non-empty source list, a list that names the same path
\* more than once included.
C11_TocNumbersIncrease ==
    (pc \in {"files", "done"} /\ generate_toc)
        => /\ \A i \in 1..Len(verified_sources) : TocEntryValue(i) > 0
           /\ \A i \in 1..(Len(verified_sources) - 1) : TocEntryValue(i) < TocEntryValue(i + 1)

----------------------------------------------------------------------------
(* parse_line_reference applied to selector strings *)

MaxRefLen == 4

MaxSegments == 3

\* the characters a selector string is made of
RefAlphabet == {"L", ",", "-", "0", "1", "2", "X", "b", " ", "+", "_"}

\* comma-separated segments, well-formed and not
Segments ==
    { <<"L", "1">>, <<"L", "2">>, <<"L", "1", "0">>, <<"L", "1", "-", "2">>,
      <<"L", "2", "-", "2">>, <<"L", "2", "-", "1">>, <<"L", "2", "-", "X">>,
      <<"L", "0">>, <<"L", "2", "b">>, <<"L", "1", "-", "2", "b">>, <<"L">>,
      <<"2">>, <<>> }

RECURSIVE JoinWith(_, _)
\* sep.join(list_of_str)
JoinWith(ss, sep) ==
    IF ss = <<>> THEN <<>>
    ELSE IF Len(ss) = 1 THEN Head(ss)
    ELSE Head(ss) \o sep \o JoinWith(Tail(ss), sep)

\* the selector strings: every short string of the alphabet, and lists of segments
InitParse ==
    /\ fs = [p \in Paths |-> Absent]
    /\ IdleAssemble
    /\ IdleItem
    /\ IdleResolve
    /\ IdleCommands
    /\ IdleUi
    /\ parsed = NotCalled
    /\ \/ selector \in SeqsUpTo(RefAlphabet, MaxRefLen)
       \/ \E ss \in SeqsUpTo(Segments, MaxSegments) :
              ss # <<>> /\ selector = JoinWith(ss, <<",">>)

\* parts = parse_line_reference(line_ref)
Parse ==
    /\ parsed = NotCalled
    /\ parsed' = parse_line_reference(selector)
    /\ UNCHANGED <<fs, asmVars, itemVars, resVars, selector, cmdVars, uiVars>>

NextParse == Parse

SpecParse == InitParse /\ [][NextParse]_vars

----------------------------------------------------------------------------
(* Claims about parse_line_reference *)

\* the decimal numeral of n, 0 <= n < 100
Decimal(n) ==
    IF n < 10 THEN <<Digits[n + 1]>> ELSE <<Digits[(n \div 10) + 1], Digits[(n % 10) + 1]>>

MaxNumeral == 12

CommaCount(s) == Cardinality({i \in 1..Len(s) : s[i] = ","})

\* C12: parse_line_reference returns exactly one range per comma-separated segment, in
\* input order, never re-ordered, merged or de-duplicated: range i is the range of
\* segment i; a single-line segment "L<n>" becomes (n, n).
C12_OneRangePerSegmentInOrder ==
    parsed.ok
        => /\ Len(parsed.val) = CommaCount(selector) + 1
           /\ \A i \in 1..Len(parsed.val) :
                  /\ parse_line_reference(split(selector, ",")[i])
                         = [ok |-> TRUE, val |-> <<parsed.val[i]>>]
                  /\ \A n \in 1..MaxNumeral :
                         split(selector, ",")[i] = <<"L">> \o Decimal(n)
                             => parsed.val[i] = <<n, n>>

\* the selector "L2,L1-2,L2": three segments, out of order, overlapping, one repeated
C12_Witness ==
    /\ selector = <<"L", "2", ",", "L", "1", "-", "2", ",", "L", "2">>
    /\ parsed = [ok |-> TRUE, val |-> << <<2, 2>>, <<1, 2>>, <<2, 2>> >>]


\* segment i of the selector
SegmentOf(s, i) == split(s, ",")[i]

\* the length of the run of decimal digits that starts at position k of seg
DigitRun(seg, k) ==
    Cardinality({j \in k..Len(seg) : \A m \in k..j : IsDigit(seg[m])})

\* seg is "L", a decimal number, and then something that is neither part of the number
\* nor a well-formed "-<number>" end of range, or "L<number>-<number>" and then more
TrailingGarbage(seg) ==
    /\ Len(seg) >= 2
    /\ Head(seg) = "L"
    /\ DigitRun(seg, 2) > 0
    /\ 1 + DigitRun(seg, 2) < Len(seg)
    /\ \/ seg[2 + DigitRun(seg, 2)] # "-"
       \/ DigitRun(seg, 3 + DigitRun(seg, 2)) = 0
       \/ 2 + DigitRun(seg, 2) + DigitRun(seg, 3 + DigitRun(seg, 2)) < Len(seg)

\* seg is "L<number>" or "L<number>-<number>" with a number that is not positive
NotPositive(seg) ==
    /\ Len(seg) >= 2
    /\ Head(seg) = "L"
    /\ DigitRun(seg, 2) > 0
    /\ \/ /\ 1 + DigitRun(seg, 2) = Len(seg)
          /\ int_value(Tail(seg)) = 0
       \/ /\ 1 + DigitRun(seg, 2) < Len(seg)
          /\ seg[2 + DigitRun(seg, 2)] = "-"
          /\ DigitRun(seg, 3 + DigitRun(seg, 2)) > 0
          /\ 2 + DigitRun(seg, 2) + DigitRun(seg, 3 + DigitRun(seg, 2)) = Len(seg)
          /\ \/ int_value(SubSeq(seg, 2, 1 + DigitRun(seg, 2))) = 0
             \/ int_value(SubSeq(seg, 3 + DigitRun(seg, 2), Len(seg))) = 0

\* seg is "L<start>-<end>" with end < start
EndBeforeStart(seg) ==
    /\ Len(seg) >= 2
    /\ Head(seg) = "L"
    /\ DigitRun(seg, 2) > 0
    /\ 1 + DigitRun(seg, 2) < Len(seg)
    /\ seg[2 + DigitRun(seg, 2)] = "-"
    /\ DigitRun(seg, 3 + DigitRun(seg, 2)) > 0
    /\ 2 + DigitRun(seg, 2) + DigitRun(seg, 3 + DigitRun(seg, 2)) = Len(seg)
    /\ int_value(SubSeq(seg, 3 + DigitRun(seg, 2), Len(seg)))
           < int_value(SubSeq(seg, 2, 1 + DigitRun(seg, 2)))

\* a segment that does not start with "L", or "L" with no number after it
NoMarkerOrNumber(seg) == seg = <<>> \/ Head(seg) # "L" \/ seg = <<"L">>

\* one of the malformations the parser is to reject
Malformed(s) ==
    \/ s = <<>>
    \/ \E i \in 1..(CommaCount(s) + 1) :
           \/ NoMarkerOrNumber(SegmentOf(s, i))
           \/ NotPositive(SegmentOf(s, i))
           \/ TrailingGarbage(SegmentOf(s, i))
           \/ EndBeforeStart(SegmentOf(s, i))

\* C13: parse_line_reference raises the invalid-selector error and returns no list
\* whenever the selector is empty, a segment does not start with "L", a line number is
\* not a positive integer, anything other than digits follows a number, or the end of
\* a range is less than its start (the bounds are never swapped).
C13_MalformedSelectorRaises ==
    (parsed # NotCalled /\ Malformed(selector)) => parsed = ValueError

\* C14: a range segment whose end is the end-of-file sentinel token, as in "L2-X", is
\* accepted by the parser and yields a single range with start 2 and the sentinel as
\* its end.
C14_SentinelEndAccepted ==
    (parsed # NotCalled /\ selector = <<"L", "2", "-", "X">>)
        => parsed = [ok |-> TRUE, val |-> << <<2, X>> >>]

----------------------------------------------------------------------------
(* Claims about the trailing newline of get_content *)

\* s without its final line terminator, if it ends with one
WithoutFinalNewline(s) ==
    IF s # <<>> /\ s[Len(s)] = NL THEN SubSeq(s, 1, Len(s) - 1) ELSE s

\* C15: get_content strips exactly one trailing newline from the concatenated
\* selection: when the selected lines end with blank lines, only the final line
\* terminator is removed and the blank lines remain in the returned content.
C15_OneTrailingNewlineStripped ==
    \A k \in 1..Len(returned) : returned[k] = WithoutFinalNewline(Join(loaded.result))

----------------------------------------------------------------------------
(* get_files_from_args applied to lists of plain files *)

MaxSortArgs == 4

\* a file that is not a bundle manifest
PlainFile == RegularFile(<<"a", NL>>)

\* the arguments name plain files, of which at most one is missing
InitSort ==
    /\ args \in SeqsUpTo({<<PathStr(p)>> : p \in Paths}, MaxSortArgs) \ {<<>>}
    /\ \E missing \in {{}} \cup {{p} : p \in Paths} :
           fs = [p \in Paths |-> IF p \in missing THEN Absent ELSE PlainFile]
    /\ options = <<>>
    /\ sniffed = None
    /\ exit_status = None
    /\ IdleAssemble
    /\ IdleItem
    /\ IdleParse
    /\ IdleCommands
    /\ IdleUi

\* verified_sources = get_files_from_args(args.sources)
GetFilesFromArgs ==
    /\ pc = "idle"
    /\ args # <<>>
    /\ \E r \in {get_files_from_args(fs, args)} :
          /\ verified_sources' = IF r.ok THEN r.val ELSE <<>>
          /\ exc' = IF r.ok THEN None ELSE r.exc
    /\ pc' = "resolved"
    /\ UNCHANGED <<fs, line_number_mode, generate_toc, show_header, sequence, style, toc,
                   idx, output_buffer, line_counter, result, blocks, nonAsmVars>>

NextSort == GetFilesFromArgs

SpecSort == InitSort /\ [][NextSort]_vars

----------------------------------------------------------------------------
(* Claims about the order of the verified files *)

\* the priority of an extension: ".txt", then ".md", then every other one
ExtPriority(p) == IF p.ext = ".txt" THEN 0 ELSE IF p.ext = ".md" THEN 1 ELSE 2

\* p and q have the same base name and the same extension priority
SameKey(p, q) == p.stem = q.stem /\ ExtPriority(p) = ExtPriority(q)

\* p's key is not greater than q's
KeyNotGreater(p, q) ==
    \/ StemRank(p.stem) < StemRank(q.stem)
    \/ p.stem = q.stem /\ ExtPriority(p) <= ExtPriority(q)

\* the files the arguments name, in argument order, without the missing ones
ExistingArgs ==
    LET Exists(a) == fs[PathOf(a)].kind = "file"
        kept == SelectSeq(args, Exists)
    IN  [i \in 1..Len(kept) |-> PathOf(kept[i])]

\* the elements of ps that have the key of q, in the order of ps
WithKeyOf(ps, q) == LET Same(p) == SameKey(p, q) IN SelectSeq(ps, Same)

\* C16: the list get_files_from_args returns is ordered by the key (base name without
\* extension, extension priority) with ".txt" before ".md" before any other extension,
\* whatever the order of the arguments; files with equal keys keep their expansion
\* order; p.txt comes before p.md.
C16_SortedByKeyStable ==
    (pc = "resolved" /\ exc = None)
        => /\ Len(verified_sources) = Len(ExistingArgs)
           /\ \A i, j \in 1..Len(verified_sources) :
                  i < j => KeyNotGreater(verified_sources[i], verified_sources[j])
           /\ \A q \in Paths :
                  WithKeyOf(verified_sources, q) = WithKeyOf(ExistingArgs, q)
           /\ \A i, j \in 1..Len(verified_sources) :
                  (/\ verified_sources[i].stem = verified_sources[j].stem
                   /\ verified_sources[i].ext = ".txt"
                   /\ verified_sources[j].ext = ".md") => i < j

\* the arguments p.rst p.md p.py p.txt come back as p.txt p.md p.rst p.py
C16_Witness ==
    /\ pc = "resolved"
    /\ args = << <<"p.rst">>, <<"p.md">>, <<"p.py">>, <<"p.txt">> >>
    /\ verified_sources = << [dir |-> "", stem |-> "p", ext |-> ".txt"],
                             [dir |-> "", stem |-> "p", ext |-> ".md"],
                             [dir |-> "", stem |-> "p", ext |-> ".rst"],
                             [dir |-> "", stem |-> "p", ext |-> ".py"] >>

----------------------------------------------------------------------------
(* The single-file program: src/nanodoc.py *)

LINE_WIDTH == 80

\* create_header(text, char): the banner line
legacy_create_header(text, char) ==
    LET padding == (LINE_WIDTH - Len(text) - 2) \div 2
        header == Repeat(char, padding) \o " " \o text \o " " \o Repeat(char, padding)
    IN  header \o Repeat(char, LINE_WIDTH - Len(header))

\* verify_path(path)
legacy_verify_path(fsys, path) ==
    IF isfile(fsys, path) THEN [ok |-> TRUE, val |-> path]
    ELSE [ok |-> FALSE, exc |-> "FileNotFoundError"]

\* expand_bundles: "lines = [line.strip() for line in f if line.strip()]", then the
\* lines that are files; none of them is a BundleError
legacy_bundle_files(fsys, r) ==
    IF ~r.ok THEN [ok |-> FALSE,
                   exc |-> IF r.exc = "FileNotFoundError" THEN "BundleError" ELSE r.exc]
    ELSE LET IsFile(l) == isfile(fsys, l)
             expanded_files == SelectSeq([i \in 1..Len(r.val) |-> strip(r.val[i])], IsFile)
         IN  IF expanded_files = <<>> THEN [ok |-> FALSE, exc |-> "BundleError"]
             ELSE [ok |-> TRUE, val |-> expanded_files]

\* expand_bundles(bundle_file)
legacy_expand_bundles(fsys, bundle_file) ==
    IF Names(bundle_file) = {} THEN [ok |-> FALSE, exc |-> "BundleError"]
    ELSE legacy_bundle_files(fsys, open_readlines(fsys, PathOf(bundle_file)))

\* get_source_files(source); expand_directory and is_bundle_file read as in the package
legacy_get_source_files(fsys, source) ==
    IF isdir(fsys, source) THEN [ok |-> TRUE, val |-> expand_directory(fsys, source)]
    ELSE IF is_bundle_file(fsys, source) THEN legacy_expand_bundles(fsys, source)
    ELSE [ok |-> TRUE, val |-> <<source>>]

RECURSIVE legacy_verify_files(_, _)
\* init: "for file in get_source_files(source): verified_sources.append(verify_path(file))"
legacy_verify_files(fsys, g) ==
    IF ~g.ok \/ g.val = <<>> THEN g
    ELSE concat_results(
             IF legacy_verify_path(fsys, Head(g.val)).ok
             THEN [ok |-> TRUE, val |-> <<legacy_verify_path(fsys, Head(g.val)).val>>]
             ELSE legacy_verify_path(fsys, Head(g.val)),
             legacy_verify_files(fsys, [ok |-> TRUE, val |-> Tail(g.val)]))

\* init: "except FileNotFoundError as e: print(e); sys.exit(1)"
legacy_exit_on_missing(v) ==
    IF ~v.ok /\ v.exc = "FileNotFoundError" THEN [ok |-> FALSE, exc |-> "SystemExit"] ELSE v

RECURSIVE legacy_verified_sources(_, _)
\* init: the loop "for source in srcs"
legacy_verified_sources(fsys, srcs) ==
    IF srcs = <<>> THEN [ok |-> TRUE, val |-> <<>>]
    ELSE concat_results(
             legacy_exit_on_missing(
                 legacy_verify_files(fsys, legacy_get_source_files(fsys, Head(srcs)))),
             legacy_verified_sources(fsys, Tail(srcs)))

\* process_file(file_path, line_number_mode, line_counter) -> (output, num_lines)
legacy_process_file(fsys, p, mode, counter) ==
    LET r == open_readlines(fsys, p)
    IN  IF ~r.ok /\ r.exc = "FileNotFoundError"
        THEN [ok |-> TRUE, output |-> <<"Error: File not found: " \o PathStr(p), NL>>,
              num_lines |-> 0]
        ELSE IF ~r.ok THEN r
        ELSE [ok |-> TRUE,
              output |-> <<legacy_create_header(basename(p), "#"), NL>> \o
                  Join([i \in 1..Len(r.val) |->
                           line_number_of(mode, counter, i - 1) \o r.val[i]]),
              num_lines |-> Len(r.val)]

RECURSIVE legacy_toc_line_loop(_, _, _, _, _)
\* process_all: the loop that fills toc_line_numbers
legacy_toc_line_loop(fsys, srcs, k, current_line, numbers) ==
    IF k > Len(srcs) THEN [ok |-> TRUE, val |-> numbers]
    ELSE LET r == open_readlines(fsys, srcs[k])
         IN  IF ~r.ok THEN r
             ELSE legacy_toc_line_loop(fsys, srcs, k + 1, current_line + Len(r.val) + 1,
                                       [numbers EXCEPT ![srcs[k]] = current_line + 1])

\* process_all: the TOC text built from toc_line_numbers
legacy_toc_text(srcs, r) ==
    IF ~r.ok THEN r
    ELSE LET listed == {srcs[k] : k \in 1..Len(srcs)}
             max_filename_length == MaxOver([p \in listed |-> Len(basename(p))], listed)
             entry(k) == << basename(srcs[k]), " ",
                            Repeat(".", max_filename_length - Len(basename(srcs[k])) + 5),
                            " ", ToString(r.val[srcs[k]]), NL >>
         IN  [ok |-> TRUE,
              val |-> <<legacy_create_header("TOC", "#"), NL>>
                       \o Join([k \in 1..Len(srcs) |-> entry(k)]) \o <<NL>>]

RECURSIVE legacy_process_loop(_, _, _, _, _, _)
\* process_all: the loop "for source_file in verified_sources"
legacy_process_loop(fsys, srcs, k, mode, counter, out) ==
    IF k > Len(srcs) THEN [ok |-> TRUE, val |-> out]
    ELSE LET r == legacy_process_file(fsys, srcs[k], mode,
                                      IF mode = "file" THEN 0 ELSE counter)
         IN  IF ~r.ok THEN r
             ELSE legacy_process_loop(fsys, srcs, k + 1, mode,
                      (IF mode = "file" THEN 0 ELSE counter) + r.num_lines,
                      out \o r.output)

\* process_all, from the sorted list on
legacy_process_sorted(fsys, srcs, mode, with_toc) ==
    IF with_toc
    THEN concat_results(
             legacy_toc_text(srcs, legacy_toc_line_loop(fsys, srcs, 1, 2 + Len(srcs) + 1,
                                                        [p \in Paths |-> 0])),
             legacy_process_loop(fsys, srcs, 1, mode, 0, <<>>))
    ELSE legacy_process_loop(fsys, srcs, 1, mode, 0, <<>>)

\* process_all(verified_sources, line_number_mode, generate_toc)
legacy_process_all(fsys, srcs, mode, with_toc) ==
    legacy_process_sorted(fsys, sorted_by_key(srcs), mode, with_toc)

\* the arguments of a run of the single-file program
LegacyArgStrings == {<<PathStr(p)>> : p \in ContentPaths \cup {BundlePath}} \cup {DirName}

\* a manifest without entries, and manifests with them
LegacyManifests ==
    { <<"#", "t", NL, NL>>, <<"d/p.txt", NL>>, <<" ", "a_b.md", NL, "d/p.txt", NL>> }

LegacyStartStates(srcs, p) ==
    IF p \notin Mentioned(srcs) THEN {Absent}
    ELSE IF p = BundlePath THEN {Absent} \cup {RegularFile(m) : m \in LegacyManifests}
    ELSE {Absent} \cup {RegularFile(d) : d \in SeqsUpTo(AsmAlphabet, MaxContentLen)}

InitLegacy ==
    /\ args \in SeqsUpTo(LegacyArgStrings, MaxArgs) \ {<<>>}
    /\ \E cp \in LegacyStartStates(args, PathOrder[2]) :
         \E ca \in LegacyStartStates(args, PathOrder[1]) :
            \E cm \in LegacyStartStates(args, BundlePath) :
               fs = FileSystem(cp, ca, cm)
    /\ options = <<>>
    /\ sniffed = None
    /\ exit_status = None
    /\ verified_sources = <<>>
    /\ line_number_mode \in LineNumberModes
    /\ generate_toc \in BOOLEAN
    /\ show_header = TRUE
    /\ sequence = None
    /\ style = None
    /\ pc = "idle"
    /\ toc = <<>>
    /\ idx = 1
    /\ output_buffer = <<>>
    /\ line_counter = 0
    /\ result = <<>>
    /\ exc = None
    /\ blocks = <<>>
    /\ IdleItem
    /\ IdleParse
    /\ IdleCommands
    /\ IdleUi

\* init, up to "if not verified_sources: return ..."
LegacyInit ==
    /\ pc = "idle"
    /\ args # <<>>
    /\ exit_status = None
    /\ \E v \in {legacy_verified_sources(fs, args)} :
          IF ~v.ok
          THEN /\ exc' = v.exc
               /\ exit_status' = IF v.exc = "SystemExit" THEN "1" ELSE exit_status
               /\ pc' = IF v.exc = "SystemExit" THEN "exited" ELSE "raised"
               /\ UNCHANGED <<verified_sources, result>>
          ELSE IF v.val = <<>>
          THEN /\ result' = <<"Error: No valid source files found.">>
               /\ pc' = "done"
               /\ UNCHANGED <<verified_sources, exc, exit_status>>
          ELSE /\ verified_sources' = [i \in 1..Len(v.val) |-> PathOf(v.val[i])]
               /\ pc' = "start"
               /\ UNCHANGED <<result, exc, exit_status>>
    /\ UNCHANGED <<fs, line_number_mode, generate_toc, show_header, sequence, style, toc,
                   idx, output_buffer, line_counter, blocks, itemVars, args, options,
                   sniffed, parseVars, cmdVars, uiVars>>

\* init: "output = process_all(verified_sources, line_number_mode, generate_toc)"
LegacyProcessAll ==
    /\ pc = "start"
    /\ \E r \in {legacy_process_all(fs, verified_sources, line_number_mode, generate_toc)} :
          IF r.ok
          THEN /\ result' = r.val
               /\ pc' = "done"
               /\ exc' = exc
          ELSE /\ result' = result
               /\ pc' = "raised"
               /\ exc' = r.exc
    /\ UNCHANGED <<fs, verified_sources, line_number_mode, generate_toc, show_header,
                   sequence, style, toc, idx, output_buffer, line_counter, blocks,
                   nonAsmVars>>

\* the run of the script: init, process_all, then print(output) or the exit on an
\* exception; a listed file may disappear before process_all reads it
NextLegacy ==
    \/ LegacyInit
    \/ LegacyProcessAll
    \/ PrintOutput
    \/ ExitOnException
    \/ \E p \in Paths : RemoveFile(p)

SpecLegacy == InitLegacy /\ [][NextLegacy]_vars

----------------------------------------------------------------------------
(* Claims about the exit status of a run *)

\* C17: when no valid source file remains after expansion and validation, the run ends
\* with the "no valid source files" error and a non-zero exit status; it never prints
\* anything in place of the document with exit status 0.
C17_NoValidSourcesExitsNonZero ==
    (exit_status # None /\ verified_sources = <<>>) => exit_status = "1"

\* every argument is the plain name of a content file; some of them are missing and at
\* least one is there
MissingAndValid ==
    /\ \A k \in 1..Len(args) : \E p \in ContentPaths : args[k] = <<PathStr(p)>>
    /\ \E k \in 1..Len(args) : fs[PathOf(args[k])].kind = "absent"
    /\ \E k \in 1..Len(args) : fs[PathOf(args[k])].kind = "file"

\* C18: a run whose arguments include some paths that do not exist and at least one
\* valid file goes on to build the document from the valid files: resolving the
\* arguments never ends the run, and every valid file is in the list to be rendered.
C18_MissingPathsAreSkipped ==
    [][(pc = "idle" /\ pc' # "idle" /\ MissingAndValid)
           => /\ pc' = "start"
              /\ exit_status' = None
              /\ \A k \in 1..Len(args) :
                     fs[PathOf(args[k])].kind = "file"
                         => \E j \in 1..Len(verified_sources') :
                                verified_sources'[j] = PathOf(args[k])]_vars

----------------------------------------------------------------------------
(* expand_bundles applied to a manifest *)

MaxBundleLines == 3

InitBundle ==
    /\ \E ls \in SeqsUpTo(ManifestLines, MaxBundleLines) :
          \E cand \in CandidateStates(ls) :
             fs = [p \in Paths |-> IF p = BundlePath THEN cand
                                   ELSE IF p = ExistingPath THEN RegularFile(<<>>)
                                   ELSE Absent]
    /\ IdleAssemble
    /\ IdleItem
    /\ IdleResolve
    /\ IdleParse
    /\ IdleCommands
    /\ IdleUi

\* expand_bundles(bundle_file) of src/nanodoc/nanodoc.py
ExpandBundles ==
    /\ pc = "idle"
    /\ \E r \in {expand_bundles(fs, <<PathStr(BundlePath)>>)} :
          /\ result' = IF r.ok THEN r.val ELSE <<>>
          /\ exc' = IF r.ok THEN None ELSE r.exc
    /\ pc' = "expanded"
    /\ UNCHANGED <<fs, verified_sources, line_number_mode, generate_toc, show_header,
                   sequence, style, toc, idx, output_buffer, line_counter, blocks,
                   nonAsmVars>>

\* expand_bundles(bundle_file) of src/nanodoc.py
LegacyExpandBundles ==
    /\ pc = "idle"
    /\ \E r \in {legacy_expand_bundles(fs, <<PathStr(BundlePath)>>)} :
          /\ result' = IF r.ok THEN r.val ELSE <<>>
          /\ exc' = IF r.ok THEN None ELSE r.exc
    /\ pc' = "legacy_expanded"
    /\ UNCHANGED <<fs, verified_sources, line_number_mode, generate_toc, show_header,
                   sequence, style, toc, idx, output_buffer, line_counter, blocks,
                   nonAsmVars>>

NextBundle == ExpandBundles \/ LegacyExpandBundles

SpecBundle == InitBundle /\ [][NextBundle]_vars

\* the manifest can be read and each of its lines is blank or a "#" comment
ZeroResolvableLines ==
    /\ fs[BundlePath].kind = "file"
    /\ fs[BundlePath].readable
    /\ \A i \in 1..Len(readlines(fs[BundlePath].data)) :
           \/ strip(readlines(fs[BundlePath].data)[i]) = <<>>
           \/ Head(strip(readlines(fs[BundlePath].data)[i])) = "#"

\* C19: expanding a bundle manifest that has zero resolvable lines (empty, or only
\* blank and comment lines) fails with the empty-bundle error.
C19_EmptyBundleRaises ==
    (pc \in {"expanded", "legacy_expanded"} /\ ZeroResolvableLines) => exc = "BundleError"

----------------------------------------------------------------------------
(* Claims about the order of the lines in the render pass *)

\* block i shows nothing but the content of an existing file selected by line ranges
PlainRangedBlock(i) ==
    /\ blocks[i].found
    /\ verified_sources[i].line_parts # <<>>
    /\ line_number_mode = None
    /\ ~show_header
    /\ fs[verified_sources[i].path].kind = "file"

\* C20: for an item selected by several line ranges, the render pass emits the lines
\* in the sequence in which get_content returns them: range-list order, with the
\* duplicates of overlapping ranges, never re-sorted by line number.
C20_RenderKeepsRangeListOrder ==
    \A i \in 1..Len(blocks) :
        PlainRangedBlock(i)
            => blocks[i].output =
                   Join(extend_parts(readlines(fs[verified_sources[i].path].data),
                                     verified_sources[i].line_parts, 1))

----------------------------------------------------------------------------
(* Claims about the line accounting of the two passes of core.py *)

\* the number of content lines the TOC pre-pass counts for source i:
\* "file_lines = len(content.splitlines())"
TocCountedLines(i) == Len(splitlines(core_content(fs, verified_sources[i]).val))

\* C21: for every item, the number of content lines the TOC pre-pass counts for it
\* equals the number of content lines the render pass emits for it and adds to the
\* line counter, also for items selected by line ranges whose last lines are blank.
C21_TocCountEqualsRenderedCount ==
    generate_toc
        => \A i \in 1..Len(blocks) :
               (blocks[i].found /\ fs[verified_sources[i].path].kind = "file")
                   => blocks[i].num_lines = TocCountedLines(i)

----------------------------------------------------------------------------
(* Claims about the line breaks between the blocks *)

\* C22: every file's block starts on a fresh output line: the last content line of
\* one file and the first header or content line of the next never share an output
\* line, with or without headers, whether or not the earlier file ends with a newline.
C22_BlockStartsOnFreshLine ==
    \A i \in 1..Len(blocks) :
        (blocks[i].output # <<>> /\ blocks[i].start > 0)
            => \/ output_buffer[blocks[i].start] = NL
               \/ output_buffer[blocks[i].start + 1] = NL

----------------------------------------------------------------------------
(* The command file protocol: makerapp/command_handler.py polls the file   *)
(* that command_client.py and makerapp/client.py write.  A write of the    *)
(* file is taken to carry a later modification time than every earlier     *)
(* write, so the handler's timestamp comparison never misses one.          *)

MaxCommands == 2       \* send_command calls per client

\* "cli" is a command_client.CommandClient, "maker" a makerapp.client.CommandClient
Clients == {"cli", "maker"}

\* the command a client sends with its n-th send_command call
CommandOf(c, n) == <<c, n>>

InitCommands ==
    /\ fs = [p \in Paths |-> Absent]
    /\ IdleAssemble
    /\ IdleItem
    /\ IdleResolve
    /\ IdleParse
    /\ IdleUi
    /\ command_file = <<>>
    /\ modified = FALSE
    /\ handler = [pc |-> "sleep", commands |-> <<>>]
    /\ client = [c \in Clients |-> [pc |-> "new", commands |-> <<>>, count |-> 0]]
    /\ executed = <<>>
    /\ sent = <<>>

\* check_for_commands: the modification-time test and the update of last_modified
CheckModified ==
    /\ handler.pc = "sleep"
    /\ modified
    /\ modified' = FALSE
    /\ handler' = [handler EXCEPT !.pc = "read"]
    /\ UNCHANGED <<command_file, client, executed, sent, nonCmdVars>>

\* check_for_commands: commands = json.loads(content), [] for an empty file
ReadCommands ==
    /\ handler.pc = "read"
    /\ handler' = [pc |-> "process", commands |-> command_file]
    /\ UNCHANGED <<command_file, modified, client, executed, sent, nonCmdVars>>

\* check_for_commands: for command in commands: self._process_command(command)
ProcessCommands ==
    /\ handler.pc = "process"
    /\ executed' = executed \o handler.commands
    /\ handler' = [handler EXCEPT !.pc = "clear"]
    /\ UNCHANGED <<command_file, modified, client, sent, nonCmdVars>>

\* check_for_commands: the file is overwritten with '[]'; _run then sleeps
ClearCommandFile ==
    /\ handler.pc = "clear"
    /\ command_file' = <<>>
    /\ modified' = TRUE
    /\ handler' = [handler EXCEPT !.pc = "sleep"]
    /\ UNCHANGED <<client, executed, sent, nonCmdVars>>

\* CommandClient.__init__: the maker client always resets the command file, the
\* other one only creates it when it is missing
ConstructClient(c) ==
    /\ client[c].pc = "new"
    /\ client' = [client EXCEPT ![c].pc = "idle"]
    /\ IF c = "maker"
       THEN command_file' = <<>> /\ modified' = TRUE
       ELSE UNCHANGED <<command_file, modified>>
    /\ UNCHANGED <<handler, executed, sent, nonCmdVars>>

\* command_client.send_command: commands = json.load(f)
ReadExisting(c) ==
    /\ c = "cli"
    /\ client[c].pc = "idle"
    /\ client[c].count < MaxCommands
    /\ client' = [client EXCEPT ![c].pc = "read", ![c].commands = command_file]
    /\ UNCHANGED <<command_file, modified, handler, executed, sent, nonCmdVars>>

\* send_command: open(self.command_file, 'w') truncates the file
OpenForWrite(c) ==
    /\ \/ c = "cli" /\ client[c].pc = "read"
       \/ c = "maker" /\ client[c].pc = "idle" /\ client[c].count < MaxCommands
    /\ command_file' = <<>>
    /\ modified' = TRUE
    /\ client' = [client EXCEPT ![c].pc = "opened"]
    /\ UNCHANGED <<handler, executed, sent, nonCmdVars>>

\* send_command: json.dump of the list, written when the file is closed
DumpCommands(c) ==
    /\ client[c].pc = "opened"
    /\ command_file' = client[c].commands \o <<CommandOf(c, client[c].count + 1)>>
    /\ modified' = TRUE
    /\ client' = [client EXCEPT ![c].pc = "idle", ![c].commands = <<>>,
                                ![c].count = @ + 1]
    /\ sent' = Append(sent, CommandOf(c, client[c].count + 1))
    /\ UNCHANGED <<handler, executed, nonCmdVars>>

HandlerStep == CheckModified \/ ReadCommands \/ ProcessCommands \/ ClearCommandFile

ClientStep(c) == ConstructClient(c) \/ ReadExisting(c) \/ OpenForWrite(c) \/ DumpCommands(c)

NextCommands ==
    \/ HandlerStep
    \/ \E c \in Clients : ClientStep(c)

SpecCommands == InitCommands /\ [][NextCommands]_vars

\* _run keeps polling while the handler runs, and a client process that has
\* started a send_command runs it to its end.
SpecCommandsLive ==
    /\ SpecCommands
    /\ WF_vars(HandlerStep)
    /\ \A c \in Clients : WF_vars(ClientStep(c))

----------------------------------------------------------------------------
(* Claims about the command file protocol *)

Range(s) == {s[i] : i \in 1..Len(s)}

\* C23: every command a client has written to the command file is eventually
\* executed by the polling handler.
C23_SentCommandEventuallyExecuted ==
    \A c \in Clients : \A n \in 1..MaxCommands :
        (CommandOf(c, n) \in Range(sent)) ~> (CommandOf(c, n) \in Range(executed))

\* C24: the handler executes no command more than once.
C24_NoCommandExecutedTwice ==
    \A i \in 1..Len(executed) : \A j \in 1..Len(executed) :
        i # j => executed[i] # executed[j]

----------------------------------------------------------------------------
(* The bundle maker's list of content items: parts are added with          *)
(* _add_file_part / add_file_part_to_bundle, and the items' content is     *)
(* read with get_content.                                                  *)

MaxParts == 3          \* _add_file_part calls

PartPaths == { [dir |-> "d/", stem |-> "p", ext |-> ".txt"],
               [dir |-> "", stem |-> "a_b", ext |-> ".md"] }

\* the starts and ends the interface passes
PartStarts == 1..MaxLineNo

PartEnds == (1..MaxLineNo) \cup {X}

\* f"L{start}" if start == end else f"L{start}-{end}"
range_str(start, end) ==
    IF start = end THEN "L" \o ToString(start)
    ELSE "L" \o ToString(start) \o "-" \o (IF end = X THEN "X" ELSE ToString(end))

\* the index of the first listed item of the file, 0 when there is none
ItemIndex(items, file_path) ==
    IF \E i \in 1..Len(items) : items[i].file_path = file_path
    THEN CHOOSE i \in 1..Len(items) :
             /\ items[i].file_path = file_path
             /\ \A j \in 1..(i - 1) : items[j].file_path # file_path
    ELSE 0

\* BundleMaker._add_file_part / add_file_part_to_bundle: the list afterwards
add_file_part_to_bundle(items, file_path, start, end) ==
    LET line_range == [start |-> start, end |-> end]
        i == ItemIndex(items, file_path)
    IN  IF i # 0
        THEN [items EXCEPT ![i].ranges = Append(@, line_range)]
        ELSE Append(items,
                    [original_arg |-> IF end # X \/ start # 1
                                      THEN PathStr(file_path) \o ":" \o range_str(start, end)
                                      ELSE PathStr(file_path),
                     file_path |-> file_path,
                     ranges |-> <<line_range>>,
                     content |-> NoContent])

InitParts ==
    /\ \E cp \in [kind : {"file"}, readable : {TRUE}, data : ItemContents] :
       \E ca \in [kind : {"file"}, readable : {TRUE}, data : {<<"a", NL>>, <<"a", NL, "a">>}] :
           fs = FileSystem(cp, ca, Absent)
    /\ IdleAssemble
    /\ IdleItem
    /\ IdleResolve
    /\ IdleParse
    /\ IdleCommands
    /\ content_items = <<>>
    /\ got = <<>>
    /\ selection = [mode |-> "idle"]
    /\ screen = [name |-> None]
    /\ app = [current_screen |-> None, created |-> 0, keys |-> 0]

RECURSIVE RangeCount(_)
\* the number of ranges held by the listed items
RangeCount(items) ==
    IF items = <<>> THEN 0 ELSE Len(Head(items).ranges) + RangeCount(Tail(items))

\* self._add_file_part(file_path, start, end)
AddFilePart ==
    /\ RangeCount(content_items) < MaxParts
    /\ \E p \in PartPaths : \E start \in PartStarts : \E end \in PartEnds :
           content_items' = add_file_part_to_bundle(content_items, p, start, end)
    /\ UNCHANGED <<got, selection, screen, app, nonUiVars>>

\* content_items[i].get_content()
GetItemContent ==
    /\ Len(got) < MaxCalls
    /\ \E i \in 1..Len(content_items) :
       \E r \in {get_content(fs, content_items[i])} :
           /\ r.ok
           /\ content_items' = [content_items EXCEPT ![i] = r.item]
           /\ got' = Append(got, [item |-> content_items[i], val |-> r.val])
    /\ UNCHANGED <<selection, screen, app, nonUiVars>>

NextParts == AddFilePart \/ GetItemContent

SpecParts == InitParts /\ [][NextParts]_vars

----------------------------------------------------------------------------
(* Claims about parts added to a listed item *)

\* C25: what get_content returns for a listed item covers all the ranges the
\* item has at the call, also when a range was added after an earlier call.
C25_ContentCoversCurrentRanges ==
    \A k \in 1..Len(got) :
        got[k].val = get_content_always_load(fs, got[k].item).val

----------------------------------------------------------------------------
(* BundleMaker._interactive_line_selection: the key loop that selects a    *)
(* range of the displayed file, and _select_file_part, which hands the     *)
(* result to _add_file_part.                                               *)

MaxFileLines == 3      \* lines of the displayed file
MaxInputLen == 2       \* digits typed into current_input

DigitKeys == {"0", "1", "2", "3"}

SelectedPath == [dir |-> "d/", stem |-> "p", ext |-> ".txt"]

\* the state after "return value", where <<>> stands for None:
\* _select_file_part adds the part unless the result is None
SelectionReturns(sel, value) ==
    /\ selection' = [sel EXCEPT !.selection_mode = "returned", !.result = value]
    /\ content_items' =
           IF value = <<>> THEN content_items
           ELSE add_file_part_to_bundle(content_items, SelectedPath, value[1], value[2])

\* start_line and result hold <<>> for None
InitSelect ==
    /\ fs = [p \in Paths |-> Absent]
    /\ IdleAssemble
    /\ IdleItem
    /\ IdleResolve
    /\ IdleParse
    /\ IdleCommands
    /\ content_items = <<>>
    /\ got = <<>>
    /\ \E n \in 0..MaxFileLines :
           selection = [max_lines |-> n, selection_mode |-> "start", current_input |-> <<>>,
                        start_line |-> <<>>, result |-> <<>>]
    /\ screen = [name |-> None]
    /\ app = [current_screen |-> None, created |-> 0, keys |-> 0]

Selecting == selection.selection_mode \in {"start", "end"}

\* key == ord("b") or key == ord("B")
KeyBack ==
    /\ Selecting
    /\ IF selection.selection_mode = "end"
       THEN /\ selection' = [selection EXCEPT !.selection_mode = "start",
                                              !.current_input = Decimal(selection.start_line[1]),
                                              !.start_line = <<>>]
            /\ UNCHANGED content_items
       ELSE SelectionReturns(selection, <<>>)
    /\ UNCHANGED <<got, screen, app, nonUiVars>>

\* key == ord(" ")
KeySpace ==
    /\ Selecting
    /\ IF selection.selection_mode = "start"
       THEN SelectionReturns(selection, <<1, X>>)
       ELSE UNCHANGED <<selection, content_items>>
    /\ UNCHANGED <<got, screen, app, nonUiVars>>

\* key == 9
KeyTab ==
    /\ Selecting
    /\ IF selection.selection_mode = "start" /\ selection.current_input # <<>>
       THEN selection' = [selection EXCEPT
                              !.start_line = <<Min(int(selection.current_input),
                                                   selection.max_lines)>>,
                              !.selection_mode = "end",
                              !.current_input = <<>>]
       ELSE UNCHANGED selection
    /\ UNCHANGED <<content_items, got, screen, app, nonUiVars>>

\* key == 10 or key == 13
KeyEnter ==
    /\ Selecting
    /\ IF selection.selection_mode = "end" /\ selection.start_line # <<>>
       THEN SelectionReturns(selection,
                <<selection.start_line[1],
                  Min(int(IF selection.current_input # <<>> THEN selection.current_input
                          ELSE Decimal(selection.start_line[1])),
                      selection.max_lines)>>)
       ELSE IF selection.selection_mode = "start" /\ selection.current_input # <<>>
       THEN SelectionReturns(selection,
                <<Min(int(selection.current_input), selection.max_lines),
                  Min(int(selection.current_input), selection.max_lines)>>)
       ELSE UNCHANGED <<selection, content_items>>
    /\ UNCHANGED <<got, screen, app, nonUiVars>>

\* 48 <= key <= 57
KeyDigit ==
    /\ Selecting
    /\ Len(selection.current_input) < MaxInputLen
    /\ \E digit \in DigitKeys :
           LET new_input == Append(selection.current_input, digit)
           IN  IF int(new_input) <= selection.max_lines
               THEN selection' = [selection EXCEPT !.current_input = new_input]
               ELSE UNCHANGED selection
    /\ UNCHANGED <<content_items, got, screen, app, nonUiVars>>

\* key == 127 or key == 8
KeyBackspace ==
    /\ Selecting
    /\ IF selection.current_input # <<>>
       THEN selection' = [selection EXCEPT
                              !.current_input = SubSeq(@, 1, Len(@) - 1)]
       ELSE UNCHANGED selection
    /\ UNCHANGED <<content_items, got, screen, app, nonUiVars>>

NextSelect ==
    \/ KeyBack
    \/ KeySpace
    \/ KeyTab
    \/ KeyEnter
    \/ KeyDigit
    \/ KeyBackspace

SpecSelect == InitSelect /\ [][NextSelect]_vars

----------------------------------------------------------------------------
(* Claims about the interactive line selection *)

\* C26: every numeric range the selection hands to the bundle satisfies
\* 1 <= start <= end <= line count of the displayed file; the only other
\* results are the whole-file range and a cancel.
C26_SelectedRangeWithinFile ==
    selection.selection_mode = "returned"
        => \/ selection.result = <<>>
           \/ selection.result = <<1, X>>
           \/ /\ 1 <= selection.result[1]
              /\ selection.result[1] <= selection.result[2]
              /\ selection.result[2] <= selection.max_lines

----------------------------------------------------------------------------
(* App.navigate_to (screens/app.py) running the FileDetail and             *)
(* BundleSummary screens of makerapp/screens.  The file selector screen is *)
(* outside the model: navigation to it ends the modelled run.              *)

MaxKeys == 4           \* key presses handled in one run
ScreenHeight == 11     \* stdscr.getmaxyx()[0]

FileDetailKeys == {"q", "h", "b", " ", "k", "j", "0", "1", "2", "\t", "\n", "x"}

BundleSummaryKeys == {"q", "h", "a", "e", "r", "k", "j", "x"}

\* Screen.__init__ followed by FileDetail.__init__ or BundleSummary.__init__ and
\* the first render; "shared" tells that current_ranges is the list object
\* held by the item in app_state
NewScreen(name, id, items, current_file, line_count) ==
    LET i == ItemIndex(items, current_file)
    IN  [name |-> name, id |-> id,
         scroll_position |-> 0, input_mode |-> None, current_input |-> <<>>,
         start_line |-> <<>>,
         current_ranges |-> IF name = "file_detail" /\ i # 0 THEN items[i].ranges ELSE <<>>,
         shared |-> name = "file_detail" /\ i # 0,
         line_count |-> IF name = "file_detail" THEN line_count ELSE 0,
         cursor_position |-> 0]

\* what a handle_input call leaves: the instance, app_state["content_items"],
\* the returned screen name and parameters (<<>> for None, else the value of
\* "current_file"), or the exception raised
Handled(scr, items, next, params) ==
    [screen |-> scr, items |-> items, next |-> next, params |-> params, raised |-> None]

Raised(scr, items, e) ==
    [screen |-> scr, items |-> items, next |-> None, params |-> <<>>, raised |-> e]

\* FileDetail._save_ranges
save_ranges(scr, items, current_file) ==
    LET i == ItemIndex(items, current_file)
    IN  IF i # 0 THEN [items EXCEPT ![i].ranges = scr.current_ranges] ELSE items

\* FileDetail.handle_input(key)
file_detail_handle_input(scr, items, key, current_file) ==
    IF key = "q" THEN Raised(scr, items, "KeyboardInterrupt")
    ELSE IF key = "h" THEN Handled(scr, items, "file_detail", <<>>)
    ELSE IF key = "b"
    THEN Handled(scr, save_ranges(scr, items, current_file), "bundle_summary", <<>>)
    ELSE IF key = " "
    THEN Handled([scr EXCEPT !.current_ranges = <<[start |-> 1, end |-> X]>>,
                             !.shared = FALSE],
                 items, "file_detail", <<>>)
    ELSE IF key = "k"
    THEN Handled(IF scr.scroll_position > 0
                 THEN [scr EXCEPT !.scroll_position = @ - 1] ELSE scr,
                 items, "file_detail", <<>>)
    ELSE IF key = "j"
    THEN Handled(IF scr.scroll_position < Max(0, scr.line_count - (ScreenHeight - 10))
                 THEN [scr EXCEPT !.scroll_position = @ + 1] ELSE scr,
                 items, "file_detail", <<>>)
    ELSE IF key \in {"0", "1", "2"}
    THEN Handled(IF scr.input_mode = None
                 THEN [scr EXCEPT !.input_mode = "start", !.current_input = <<key>>]
                 ELSE [scr EXCEPT !.current_input = Append(@, key)],
                 items, "file_detail", <<>>)
    ELSE IF key = "\t"
    THEN Handled(IF scr.input_mode = "start" /\ scr.current_input # <<>>
                 THEN IF 1 <= int(scr.current_input) /\ int(scr.current_input) <= scr.line_count
                      THEN [scr EXCEPT !.start_line = <<int(scr.current_input)>>,
                                       !.input_mode = "end", !.current_input = <<>>]
                      ELSE [scr EXCEPT !.start_line = <<int(scr.current_input)>>,
                                       !.input_mode = None, !.current_input = <<>>]
                 ELSE scr,
                 items, "file_detail", <<>>)
    ELSE IF key = "\n"
    THEN IF scr.input_mode = "end" /\ scr.current_input # <<>> /\ scr.start_line # <<>>
         THEN LET end_line == int(scr.current_input)
                  fits == scr.start_line[1] <= end_line /\ end_line <= scr.line_count
                  range == [start |-> scr.start_line[1], end |-> end_line]
                  i == ItemIndex(items, current_file)
              IN  Handled([scr EXCEPT !.current_ranges = IF fits THEN Append(@, range) ELSE @,
                                      !.input_mode = None, !.current_input = <<>>,
                                      !.start_line = <<>>],
                          IF fits /\ scr.shared /\ i # 0
                          THEN [items EXCEPT ![i].ranges = Append(@, range)] ELSE items,
                          "file_detail", <<>>)
         ELSE Handled(scr, items, "file_detail", <<>>)
    ELSE Handled(scr, items, "file_detail", <<>>)

\* BundleSummary.handle_input(key)
bundle_summary_handle_input(scr, items, key) ==
    IF key = "q" THEN Raised(scr, items, "KeyboardInterrupt")
    ELSE IF key = "h" THEN Handled(scr, items, "bundle_summary", <<>>)
    ELSE IF key = "a" THEN Handled(scr, items, "file_selector", <<>>)
    ELSE IF key = "e"
    THEN IF items # <<>> /\ scr.cursor_position < Len(items)
         THEN Handled(scr, items, "file_detail", <<items[scr.cursor_position + 1].file_path>>)
         ELSE Handled(scr, items, "bundle_summary", <<>>)
    ELSE IF key = "r"
    THEN IF items # <<>> /\ scr.cursor_position < Len(items)
         THEN LET left == SubSeq(items, 1, scr.cursor_position)
                            \o SubSeq(items, scr.cursor_position + 2, Len(items))
              IN  Handled(IF scr.cursor_position >= Len(left) /\ Len(left) > 0
                          THEN [scr EXCEPT !.cursor_position = Len(left) - 1] ELSE scr,
                          left, "bundle_summary", <<>>)
         ELSE Handled(scr, items, "bundle_summary", <<>>)
    ELSE IF key = "k"
    THEN Handled(IF items # <<>>
                 THEN [scr EXCEPT !.cursor_position = Max(0, @ - 1)] ELSE scr,
                 items, "bundle_summary", <<>>)
    ELSE IF key = "j"
    THEN Handled(IF items # <<>>
                 THEN [scr EXCEPT !.cursor_position = Min(Len(items) - 1, @ + 1)] ELSE scr,
                 items, "bundle_summary", <<>>)
    ELSE Handled(scr, items, "bundle_summary", <<>>)

\* app.run("file_detail") on a bundle that lists the file: navigate_to has
\* created the first screen and waits for a key
InitApp ==
    /\ fs = [p \in Paths |-> Absent]
    /\ IdleAssemble
    /\ IdleItem
    /\ IdleResolve
    /\ IdleParse
    /\ IdleCommands
    /\ got = <<>>
    /\ selection = [mode |-> "idle"]
    /\ \E n \in 1..MaxFileLines : \E listed \in 1..2 :
           /\ content_items =
                  [k \in 1..listed |->
                      [file_path |-> IF k = 1 THEN SelectedPath
                                     ELSE [dir |-> "", stem |-> "a_b", ext |-> ".md"],
                       ranges |-> <<>>]]
           /\ app = [current_screen |-> "file_detail", created |-> 1, keys |-> 0,
                     next_screen |-> None, next_params |-> <<>>, running |-> TRUE,
                     current_file |-> SelectedPath, line_count |-> n]
    /\ screen = NewScreen("file_detail", 1, content_items, SelectedPath, app.line_count)

\* navigate_to: key = self.stdscr.getch(); next_screen, next_params =
\* screen.handle_input(key), and the re-rendering
HandleInput ==
    /\ app.running
    /\ app.next_screen = None
    /\ app.keys < MaxKeys
    /\ screen.name \in {"file_detail", "bundle_summary"}
    /\ \E key \in IF screen.name = "file_detail" THEN FileDetailKeys ELSE BundleSummaryKeys :
       \E r \in {IF screen.name = "file_detail"
                 THEN file_detail_handle_input(screen, content_items, key,
                                               app.current_file)
                 ELSE bundle_summary_handle_input(screen, content_items, key)} :
           /\ screen' = r.screen
           /\ content_items' = r.items
           /\ app' = [app EXCEPT !.keys = @ + 1,
                                 !.next_screen = r.next,
                                 !.next_params = r.params,
                                 !.running = r.raised = None]
    /\ UNCHANGED <<got, selection, nonUiVars>>

\* navigate_to: "if next_screen: self.navigate_to(next_screen, next_params)" up to
\* the first render of the screen it creates
NavigateTo ==
    /\ app.running
    /\ app.next_screen # None
    /\ LET current_file == IF app.next_params # <<>> THEN app.next_params[1]
                           ELSE app.current_file
       IN  /\ screen' = NewScreen(app.next_screen, app.created + 1, content_items,
                                  current_file,
                                  IF current_file = SelectedPath THEN app.line_count ELSE 1)
           /\ app' = [app EXCEPT !.current_screen = app.next_screen,
                                 !.created = @ + 1,
                                 !.next_screen = None,
                                 !.next_params = <<>>,
                                 !.current_file = current_file]
    /\ UNCHANGED <<content_items, got, selection, nonUiVars>>

NextApp == HandleInput \/ NavigateTo

SpecApp == InitApp /\ [][NextApp]_vars

----------------------------------------------------------------------------
(* Claims about the screens under App.navigate_to *)

LocalState(scr) ==
    <<scr.input_mode, scr.current_input, scr.start_line, scr.scroll_position>>

\* C27: when a key press handler returns the current screen's own name, the same
\* screen instance handles the next key press, with the local state (input_mode,
\* current_input, start_line, scroll_position) the key press left.
C27_SameInstanceAfterOwnName ==
    [][(app.running /\ app.next_screen # None /\ app.next_screen = screen.name)
          => (screen'.id = screen.id /\ LocalState(screen') = LocalState(screen))]_vars

----------------------------------------------------------------------------
(* A bundle file in the exported format: the three-line comment banner, a  *)
(* blank line, then one reference per line, joined with line breaks.       *)

MaxEntries == 3        \* references listed in an exported bundle

\* the banner lines; the text after "#" is one atom
Banner == << <<"#", " ", "t">>, <<"#", " ", "t">>, <<"#", " ", "t">>, <<>> >>

\* a path, or a path with a selector, of a file that exists
ExportedEntries ==
    {<<PathStr(p)>> : p \in PartPaths}
    \cup {<<PathStr(p), ":L">> \o sel : p \in PartPaths, sel \in {<<"1">>, <<"1", "-", "2">>}}

\* "\n".join(lines)
RECURSIVE JoinedByNL(_)
JoinedByNL(ls) ==
    IF ls = <<>> THEN <<>>
    ELSE IF Len(ls) = 1 THEN Head(ls)
    ELSE Head(ls) \o <<NL>> \o JoinedByNL(Tail(ls))

\* args holds the references the bundle was exported from
InitExported ==
    /\ \E es \in SeqsUpTo(ExportedEntries, MaxEntries) :
           /\ es # <<>>
           /\ args = es
           /\ fs = FileSystem(RegularFile(<<"a", NL, "a", NL>>),
                              RegularFile(<<"a", NL, "a", NL>>),
                              RegularFile(JoinedByNL(Banner \o es)))
    /\ options = <<>>
    /\ sniffed = None
    /\ exit_status = None
    /\ IdleAssemble
    /\ IdleItem
    /\ IdleParse
    /\ IdleCommands
    /\ IdleUi

NextExported == Sniff \/ ExpandBundles

SpecExported == InitExported /\ [][NextExported]_vars

----------------------------------------------------------------------------
(* Claims about exported bundle files *)

\* C28: a bundle file in the exported format whose listed files all exist is
\* classified as a bundle and expands to its listed references in their written
\* order, also when the first reference carries a ":L" selector.
C28_ExportedBundleRecognised ==
    /\ sniffed # None => sniffed = "True"
    /\ pc = "expanded" => (exc = None /\ result = args)

----------------------------------------------------------------------------
(* Claims about the validation of whole-file items *)

WholeFile == <<[start |-> 1, end |-> X]>>

\* C29: an item whose single range is (1, sentinel) passes validation for every
\* existing, readable regular file, a file with zero lines included.
C29_WholeFileItemValidates ==
    (/\ validated # None
     /\ item.ranges = WholeFile
     /\ fs[item.file_path].kind = "file"
     /\ fs[item.file_path].readable)
        => validated = "True"

----------------------------------------------------------------------------
(* create_header of src/nanodoc.py applied to one text and border character *)

MaxTextLen == 82       \* characters of the header text

BorderChars == {"#", "*", "="}

\* args holds the call's arguments: the text and the border character
InitHeader ==
    /\ fs = [p \in Paths |-> Absent]
    /\ IdleAssemble
    /\ IdleItem
    /\ \E n \in 0..MaxTextLen : \E char \in BorderChars :
           args = <<Repeat("x", n), char>>
    /\ options = <<>>
    /\ sniffed = None
    /\ exit_status = None
    /\ IdleParse
    /\ IdleCommands
    /\ IdleUi

\* header = create_header(text, char)
CreateHeader ==
    /\ pc = "idle"
    /\ result' = legacy_create_header(args[1], args[2])
    /\ pc' = "header_created"
    /\ UNCHANGED <<fs, verified_sources, line_number_mode, generate_toc, show_header,
                   sequence, style, toc, idx, output_buffer, line_counter, exc, blocks,
                   nonAsmVars>>

NextHeader == CreateHeader

SpecHeader == InitHeader /\ [][NextHeader]_vars

----------------------------------------------------------------------------
(* Claims about the legacy banner header *)

\* C30: the header create_header returns is exactly LINE_WIDTH characters long
\* for every text and border character, text longer than the line included.
C30_HeaderIsLineWidthLong ==
    pc = "header_created" => Len(result) = LINE_WIDTH

====
